---- MODULE Spec2Model ----
(***************************************************************************)
(* Model of the client-side UI controller of js/main.js: the contact-form  *)
(* controller (ContactFormManager) and the animation controller            *)
(* (AnimationManager), as state machines driven by browser events.         *)
(*                                                                         *)
(* Strings the code inspects character by character (field values) are     *)
(* sequences of one-character strings; messages built from templates are   *)
(* sequences of their pieces.                                              *)
(***************************************************************************)
EXTENDS Integers, Sequences, FiniteSets, TLC

(***************************************************************************)
(* Bounds of the model.                                                    *)
(***************************************************************************)
\* longest e-mail value typed into the form in SpecValidate
MaxEmailLen == 5
\* most outbound send calls issued in one run
MaxSends == 2
\* most banner-hide timers pending at once
MaxTimers == 2
\* most intersection entries delivered in one observer callback
MaxBatch == 2
\* most times the entrance observer reports one element as intersecting
MaxReports == 2
\* largest absolute value of a counter's start value and target
MaxCount == 3
\* a category or filter button is clicked only while fewer than this many
\* timer callbacks of the two controllers are pending
MaxUiTimers == 4
\* most tooltip elements created in one run
MaxTips == 3
\* a tech item is left only while fewer than this many removal timers of
\* tooltips are pending
MaxTipTimers == 2
\* most calls of TechnicalShowcaseApp.init in one run
MaxInitCalls == 4
\* most errors PerformanceMonitor records, and most reports taken
MaxErrors == 2
MaxPerfReports == 2

VARIABLES
    \* ---- ContactFormManager and its part of the document ----
    values,          \* field name -> current value of the form control
    fieldError,      \* field name -> text of its "<name>-error" element
    isSubmitting,    \* this.isSubmitting
    sendPending,     \* an emailjs.send promise has been issued and not settled
    inflight,        \* finalTemplateParams of the pending call (closure)
    orig,            \* originalContent captured by the handler (closure)
    sendCalls,       \* number of emailjs.send calls issued so far
    sdk,             \* "loading" | "ready" | "failed": the emailjs global
    btnDisabled,     \* submitBtn.disabled
    btnContent,      \* submitBtn.innerHTML: "original" | "loading"
    successDisplay,  \* #success-message style.display
    errorDisplay,    \* #error-message style.display
    feedbackDisplay, \* #form-feedback style.display
    hideTimers,      \* number of pending 10 s banner timers
    events,          \* analytics events passed to trackEvent, in order
    warnings,        \* number of console.warn calls of initEmailJS
    lastOp,          \* the event most recently delivered to the controller
    hasSubmitBtn,    \* the form contains an element of class 'submit-btn'
    uncaught,        \* number of exceptions that escaped a handler
    \* ---- AnimationManager and its part of the document ----
    animatedElements,  \* this.animatedElements
    countersAnimated,  \* this.countersAnimated
    animateCalls,      \* element -> number of animateElement invocations
    revealTimers,      \* element -> pending timers set by animateElement
    aosAnimate,        \* element -> it carries class 'aos-animate'
    widthTimers,       \* element -> pending skill-bar width timers
    widthSet,          \* element -> style.width has been set to data-width
    counterRuns,       \* element -> number of animateCounter invocations
    scrollReports,     \* element -> times the entrance observer reported it intersecting
    \* ---- one run of Utils.animateCounter ----
    ctrStart,        \* parseInt(element.textContent) || 0 at the call
    ctrTarget,       \* the target argument
    ctrDuration,     \* the duration argument, in ms
    ctrNum,          \* current * duration (current is a multiple of 1/duration)
    ctrText,         \* element.textContent, as a number
    ctrPhase,        \* "idle" | "running" | "cleared": the interval timer
    \* ---- NavigationManager and its part of the document ----
    isMenuOpen,      \* this.isMenuOpen
    menuActive,      \* #nav-menu carries class 'active'
    ariaExpanded,    \* aria-expanded of the toggle button
    bodyOverflow,    \* document.body.style.overflow
    activeLinks,     \* the nav links that carry class 'active'
    lastSection,     \* the section most recently reported as intersecting
    sectionsSeen,    \* the sections reported as intersecting so far
    lastNav,         \* the event most recently delivered to the controller
    \* ---- SkillsManager, ProjectsManager and their part of the document ----
    currentCategory, \* SkillsManager.currentCategory
    skillBtnActive,  \* the .skill-nav-btn elements that carry class 'active'
    skillCatActive,  \* the .skill-category elements that carry class 'active'
    barWidth,        \* style.width of each .skill-progress bar inside them
    currentFilter,   \* ProjectsManager.currentFilter
    filterBtnActive, \* the .filter-btn elements that carry class 'active'
    cardStyle,       \* the inline style of each .project-card
    uiTimers,        \* pending setTimeout callbacks of the two controllers
    lastUi,          \* the call or callback that ran last, with its effects
    \* ---- AnimationManager: tech-stack tooltips ----
    tooltips,        \* the .tooltip elements attached to document.body
    tipsOpaque,      \* the tooltip elements whose style.opacity is '1'
    tipFrames,       \* tooltips with a pending requestAnimationFrame callback
    tipTimers,       \* pending 200 ms removal timers, each with its tooltip
    nextTip,         \* how many tooltip elements have been created, plus one
    lastMouse,       \* the mouse event delivered last
    \* ---- ContactFormManager.validateField on one control of any kind ----
    ruleField,       \* the control's attributes: required, type, minlength
    ruleValue,       \* the control's value
    ruleSlot,        \* the messages held by the control's error element
    lastRule,        \* the listener that ran last, and the slot before it
    \* ---- handleContactSubmission: how one payload value is chosen ----
    payField,        \* the field looked at
    payPrimary,      \* its FormData entry (Undefined when there is none)
    payDirect,       \* .value of the element the direct lookup finds
    payOut,          \* the value placed in the payload, NotBuilt before
    \* ---- which controller has written which element ----
    elWriters,       \* for each element, the controllers that have written it
    ownTimers,       \* pending timer callbacks that will write a skill bar
    ownAnimated,     \* AnimationManager.animatedElements, skill bars only
    ownCategory,     \* SkillsManager.currentCategory
    \* ---- TechnicalShowcaseApp ----
    appFaulty,       \* the controller whose constructor throws, or "none"
    appBuilt,        \* how often each controller has been constructed
    appListeners,    \* how often setupGlobalEvents has registered listeners
    isInitialized,   \* this.isInitialized
    overlayDisplay,  \* style.display of #loading-overlay
    overlayOpacity,  \* style.opacity of #loading-overlay
    overlayTimers,   \* pending 500 ms timers of hideLoadingOverlay
    initSuspended,   \* init() invocations suspended at their await
    initCalls,       \* how often init() has been called
    \* ---- PerformanceMonitor ----
    perfHeap,        \* the objects this.metrics and this.errors refer to
    perfReports,     \* the reports getReport has returned, each with what
                     \* its metrics and errors read when it was returned
    \* ---- deploy.sh ----
    shCmd,           \* the command argument of the script
    shEnv,           \* the environment argument ("" when it is left out)
    shSrc,           \* what the working tree and the machine provide
    shDirs,          \* the directories that exist under the build directory
    shFiles,         \* the files that exist under the build directory
    shBuckets,       \* the S3 buckets that exist
    shAws,           \* the changing AWS calls made so far, in order
    shLog,           \* the result lines printed so far
    shProgram,       \* the functions the command still has to run
    shExit,          \* "idle", "running", or the exit status "0" or "1"

    \* ---- the scroll listeners ----
    scrollY,         \* window.pageYOffset
    scrollSeen,      \* a scroll event has been dispatched
    navScrolled,     \* the navbar has the class 'scrolled'
    backToTopDisplay,\* style.display of the back-to-top button
    navInThrottle,   \* inThrottle of the navbar's throttled handler
    navLeft,         \* 50 ms units until its setTimeout callback is due
    topInThrottle,   \* inThrottle of the back-to-top button's handler
    topLeft,         \* 50 ms units until its setTimeout callback is due

    \* ---- infrastructure/test-deployment.sh ----
    tdEnv,           \* the environment argument of the script
    tdSite,          \* what each origin and the DNS answer during the run
    tdProgram,       \* the check functions the run still has to call
    tdCounts,        \* lengths of PASSED_TESTS, FAILED_TESTS, WARNING_TESTS
    tdReport,        \* the summaries generate_report has printed
    tdExit,          \* "idle", "running", or the exit status "0" or "1"

    \* ---- the infrastructure setup script ----
    cfAction,        \* the action argument of the script
    cfGiven,         \* what the machine, the template and the user provide
    cfInitial,       \* the stack status when the script is started
    cfStatus,        \* the stack status now, as a sequence of words
    cfOps,           \* the cloudformation calls that change the stack, in order
    cfProgram,       \* the functions the action still has to run
    cfExit           \* "idle", "running", or the exit status "0" or "1"

formVars == <<values, fieldError, isSubmitting, sendPending, inflight, orig,
              sendCalls, sdk, btnDisabled, btnContent, successDisplay,
              errorDisplay, feedbackDisplay, hideTimers, events, warnings,
              lastOp, hasSubmitBtn, uncaught>>

animVars == <<animatedElements, countersAnimated, animateCalls, revealTimers,
              aosAnimate, widthTimers, widthSet, counterRuns, scrollReports>>

counterVars == <<ctrStart, ctrTarget, ctrDuration, ctrNum, ctrText, ctrPhase>>

\* the variables of the controllers modelled after the form and the observers
navVars == <<isMenuOpen, menuActive, ariaExpanded, bodyOverflow, activeLinks,
             lastSection, sectionsSeen, lastNav>>

filterVars == <<currentCategory, skillBtnActive, skillCatActive, barWidth,
                currentFilter, filterBtnActive, cardStyle, uiTimers, lastUi>>

tipVars == <<tooltips, tipsOpaque, tipFrames, tipTimers, nextTip, lastMouse>>

ruleVars == <<ruleField, ruleValue, ruleSlot, lastRule>>

payVars == <<payField, payPrimary, payDirect, payOut>>

ownVars == <<elWriters, ownTimers, ownAnimated, ownCategory>>

appVars == <<appFaulty, appBuilt, appListeners, isInitialized, overlayDisplay,
             overlayOpacity, overlayTimers, initSuspended, initCalls>>

perfVars == <<perfHeap, perfReports>>

shVars == <<shCmd, shEnv, shSrc, shDirs, shFiles, shBuckets, shAws, shLog,
            shProgram, shExit>>

scrollVars == <<scrollY, scrollSeen, navScrolled, backToTopDisplay,
                navInThrottle, navLeft, topInThrottle, topLeft>>

tdVars == <<tdEnv, tdSite, tdProgram, tdCounts, tdReport, tdExit>>

cfVars == <<cfAction, cfGiven, cfInitial, cfStatus, cfOps, cfProgram, cfExit>>

uiVars ==
    <<counterVars, navVars, filterVars, tipVars, ruleVars, payVars, ownVars, appVars, perfVars, shVars, scrollVars, tdVars, cfVars>>

vars == <<formVars, animVars, uiVars>>

\* everything but one controller's variables
exceptCounter ==
    <<formVars, animVars, navVars, filterVars, tipVars, ruleVars, payVars, ownVars, appVars, perfVars, shVars, scrollVars, tdVars, cfVars>>

exceptNav ==
    <<formVars, animVars, counterVars, filterVars, tipVars, ruleVars, payVars, ownVars, appVars, perfVars, shVars, scrollVars, tdVars, cfVars>>

exceptFilter ==
    <<formVars, animVars, counterVars, navVars, tipVars, ruleVars, payVars, ownVars, appVars, perfVars, shVars, scrollVars, tdVars, cfVars>>

exceptTip ==
    <<formVars, animVars, counterVars, navVars, filterVars, ruleVars, payVars, ownVars, appVars, perfVars, shVars, scrollVars, tdVars, cfVars>>

exceptRule ==
    <<formVars, animVars, counterVars, navVars, filterVars, tipVars, payVars, ownVars, appVars, perfVars, shVars, scrollVars, tdVars, cfVars>>

exceptPay ==
    <<formVars, animVars, counterVars, navVars, filterVars, tipVars, ruleVars, ownVars, appVars, perfVars, shVars, scrollVars, tdVars, cfVars>>

exceptOwn ==
    <<formVars, animVars, counterVars, navVars, filterVars, tipVars, ruleVars, payVars, appVars, perfVars, shVars, scrollVars, tdVars, cfVars>>

exceptApp ==
    <<formVars, animVars, counterVars, navVars, filterVars, tipVars, ruleVars, payVars, ownVars, perfVars, shVars, scrollVars, tdVars, cfVars>>

exceptPerf ==
    <<formVars, animVars, counterVars, navVars, filterVars, tipVars, ruleVars, payVars, ownVars, appVars, shVars, scrollVars, tdVars, cfVars>>

exceptSh ==
    <<formVars, animVars, counterVars, navVars, filterVars, tipVars, ruleVars, payVars, ownVars, appVars, perfVars, scrollVars, tdVars, cfVars>>

exceptScroll ==
    <<formVars, animVars, counterVars, navVars, filterVars, tipVars, ruleVars, payVars, ownVars, appVars, perfVars, shVars, tdVars, cfVars>>

exceptTd ==
    <<formVars, animVars, counterVars, navVars, filterVars, tipVars, ruleVars, payVars, ownVars, appVars, perfVars, shVars, scrollVars, cfVars>>

exceptCf ==
    <<formVars, animVars, counterVars, navVars, filterVars, tipVars, ruleVars, payVars, ownVars, appVars, perfVars, shVars, scrollVars, tdVars>>

(***************************************************************************)
(* The contact form's markup.                                              *)
(***************************************************************************)
Fields == {"name", "email", "company", "budget", "service", "message"}

RequiredFields == {"name", "email", "message"}

MinLengthFields == {"message"}

MinLength == 2

FieldType(f) == IF f = "email" THEN "email" ELSE "text"

Label(f) ==
    CASE f = "name" -> "Name"
      [] f = "email" -> "Email"
      [] f = "company" -> "Company"
      [] f = "budget" -> "Budget"
      [] f = "service" -> "Service"
      [] f = "message" -> "Message"

\* value of every control after form.reset()
DefaultValue(f) == <<>>

(***************************************************************************)
(* Utility functions.                                                      *)
(***************************************************************************)
IsSpace(c) == c = " "

\* String.prototype.trim
RECURSIVE TrimLeft(_)
TrimLeft(s) ==
    IF s # <<>> /\ IsSpace(Head(s)) THEN TrimLeft(Tail(s)) ELSE s

RECURSIVE TrimRight(_)
TrimRight(s) ==
    IF s # <<>> /\ IsSpace(s[Len(s)])
    THEN TrimRight(SubSeq(s, 1, Len(s) - 1))
    ELSE s

TrimNone(s) == s

Trim(s) == TrimRight(TrimLeft(s))

\* the character class [^\s@]
Plain(c) == ~IsSpace(c) /\ c # "@"

AllPlain(s, from, to) == \A k \in from..to : Plain(s[k])

\* Utils.isValidEmail: /^[^\s@]+@[^\s@]+\.[^\s@]+$/
isValidEmailLoose(s) ==
    \E i \in 1..Len(s) : s[i] = "@" /\ i > 1 /\ i < Len(s)

isValidEmail(s) ==
    \E i \in 1..Len(s), j \in 1..Len(s) :
        /\ s[i] = "@"
        /\ s[j] = "."
        /\ 1 < i /\ i + 1 < j /\ j < Len(s)
        /\ AllPlain(s, 1, i - 1)
        /\ AllPlain(s, i + 1, j - 1)
        /\ AllPlain(s, j + 1, Len(s))

(***************************************************************************)
(* ContactFormManager: field validation.                                   *)
(***************************************************************************)
NoError == <<>>

\* the message validateField computes for a control with the given
\* attributes holding raw, NoError if it is valid: lines 724-750
RuleMessage(field, raw) ==
    LET value == Trim(raw) IN
    IF field.required /\ value = <<>>
    THEN <<field.label, " is required.">>
    ELSE IF field.type = "email" /\ value # <<>> /\ ~isValidEmail(value)
    THEN <<"Please enter a valid email address.">>
    ELSE IF field.hasMin /\ Len(value) < field.min
    THEN <<field.label, " must be at least ", ToString(field.min), " characters.">>
    ELSE NoError

\* the attributes of the form's control f
FieldOf(f) ==
    [required |-> f \in RequiredFields,
     type |-> FieldType(f),
     hasMin |-> f \in MinLengthFields,
     min |-> MinLength,
     label |-> Label(f)]

\* the message validateField shows for field f holding raw, NoError if valid
ValidationMessage(f, raw) == RuleMessage(FieldOf(f), raw)

\* validateField(field): clearFieldError, then showFieldError when invalid
validateField(errs, f) == [errs EXCEPT ![f] = ValidationMessage(f, values[f])]

\* the forEach over input[required], select[required], textarea[required]
ValidateRequired ==
    [f \in Fields |->
        IF f \in RequiredFields
        THEN ValidationMessage(f, values[f])
        ELSE fieldError[f]]

(***************************************************************************)
(* ContactFormManager: the outgoing payload.                               *)
(***************************************************************************)
\* JavaScript a || b on strings
Or(a, b) == IF a # <<>> THEN a ELSE b

Undefined == <<"#undefined">>

\* obj.key of a JavaScript object
Prop(obj, key) == IF key \in DOMAIN obj THEN obj[key] ELSE Undefined

NoPayload == [none |-> TRUE]

Timestamp == <<"#now">>

PageUrl == <<"#href">>

\* templateParams after the FormData loop and the direct element lookups
TemplateParams ==
    [f \in Fields |-> Or(values[f], values[f])]

\* finalTemplateParams, lines 851-894
FinalTemplateParams ==
    LET tp == TemplateParams
        finalName == Or(tp["name"], Or(values["name"], <<>>))
        finalEmail == Or(tp["email"], Or(values["email"], <<>>))
        finalCompany == Or(tp["company"], Or(values["company"], <<>>))
        finalBudget == Or(tp["budget"], Or(values["budget"], <<>>))
        finalService == Or(tp["service"], Or(values["service"], <<>>))
        finalMessage == Or(tp["message"], Or(values["message"], <<>>))
        timeline == IF "timeline" \in DOMAIN tp
                    THEN Or(tp["timeline"], <<"Not specified">>)
                    ELSE <<"Not specified">>
    IN  [message |-> <<"New Contact Form Submission: Name: ">> \o finalName
                     \o <<" Email: ">> \o finalEmail
                     \o <<" Company: ">> \o finalCompany
                     \o <<" Budget: ">> \o finalBudget
                     \o <<" Service: ">> \o finalService
                     \o <<" Timeline: ">> \o timeline
                     \o <<" Message: ">> \o finalMessage
                     \o <<" Submitted: ">> \o Timestamp
                     \o <<" From: ">> \o PageUrl,
         from_name |-> Or(finalName, <<"Website Visitor">>),
         from_email |-> Or(finalEmail, <<"noreply@gabrieletupini.dev">>),
         reply_to |-> Or(finalEmail, <<"noreply@gabrieletupini.dev">>),
         to_name |-> <<"Gabriele Tupini">>,
         subject |-> <<"Contact Form: ">> \o Or(finalService, <<"New Inquiry">>),
         user_name |-> finalName,
         user_email |-> finalEmail,
         user_company |-> finalCompany,
         user_budget |-> finalBudget,
         user_service |-> finalService,
         user_timeline |-> timeline,
         user_message |-> finalMessage]

(***************************************************************************)
(* ContactFormManager: banner, button, analytics.                          *)
(***************************************************************************)
\* the page has #form-feedback, #success-message and #error-message
BannerPresent == TRUE

\* showFormMessage(message, type)
showFormMessage(type) ==
    IF ~BannerPresent
    THEN UNCHANGED <<successDisplay, errorDisplay, feedbackDisplay, hideTimers>>
    ELSE /\ successDisplay' = IF type = "success" THEN "block" ELSE "none"
         /\ errorDisplay' = IF type = "success" THEN "none" ELSE "block"
         /\ feedbackDisplay' = "block"
         /\ hideTimers' = hideTimers + 1

\* the arrow function of the setTimeout in showFormMessage
BannerTimerTimeout ==
    /\ hideTimers > 0
    /\ hideTimers' = hideTimers - 1
    /\ feedbackDisplay' = "none"
    /\ isSubmitting' = FALSE
    /\ btnDisabled' = FALSE
    /\ btnContent' = "original"
    /\ lastOp' = "timer"
    /\ UNCHANGED <<values, fieldError, sendPending, inflight, orig,
                   sendCalls, sdk, successDisplay, errorDisplay, events,
                   warnings>>
    /\ UNCHANGED <<hasSubmitBtn, uncaught, animVars, uiVars>>

BannerTimer ==
    /\ hideTimers > 0
    /\ hideTimers' = hideTimers - 1
    /\ feedbackDisplay' = "none"
    /\ lastOp' = "timer"
    /\ UNCHANGED <<values, fieldError, isSubmitting, sendPending, inflight,
                   orig, sendCalls, sdk, btnDisabled, btnContent,
                   successDisplay, errorDisplay, events, warnings>>
    /\ UNCHANGED <<hasSubmitBtn, uncaught, animVars, uiVars>>

\* trackEvent('contact_form_submit', {service: ..., budget: ...}), line 916
SubmitEventOf(params) ==
    [name |-> "contact_form_submit",
     service |-> Prop(params, "service"),
     budget |-> Prop(params, "budget")]

(***************************************************************************)
(* ContactFormManager: event handlers.                                     *)
(***************************************************************************)
\* sample values a user types into each control
InputValues(f) ==
    CASE f = "name" -> {<<>>, <<" ">>, <<"J">>}
      [] f = "email" -> {<<>>, <<"a", "@", "a">>, <<"a", "@", "a", ".", "a">>}
      [] f = "company" -> {<<>>}
      [] f = "budget" -> {<<>>, <<"5k">>}
      [] f = "service" -> {<<>>, <<"web">>}
      [] f = "message" -> {<<>>, <<"H", "i">>}

\* 'input' listener of a control: the value changes, clearFieldError(input)
Input(f, v) ==
    /\ v # values[f]
    /\ values' = [values EXCEPT ![f] = v]
    /\ fieldError' = [fieldError EXCEPT ![f] = NoError]
    /\ lastOp' = "input"
    /\ UNCHANGED <<isSubmitting, sendPending, inflight, orig, sendCalls, sdk,
                   btnDisabled, btnContent, successDisplay, errorDisplay,
                   feedbackDisplay, hideTimers, events, warnings>>
    /\ UNCHANGED <<hasSubmitBtn, uncaught, animVars, uiVars>>

\* 'blur' listener of a control: validateField(input)
Blur(f) ==
    /\ fieldError' = validateField(fieldError, f)
    /\ lastOp' = "blur"
    /\ UNCHANGED <<values, isSubmitting, sendPending, inflight, orig,
                   sendCalls, sdk, btnDisabled, btnContent, successDisplay,
                   errorDisplay, feedbackDisplay, hideTimers, events,
                   warnings>>
    /\ UNCHANGED <<hasSubmitBtn, uncaught, animVars, uiVars>>

\* the guard of handleContactSubmission, line 786
SubmitIgnoredNever == FALSE

SubmitIgnored == isSubmitting

\* handleContactSubmission up to its first suspension (or its return)
handleContactSubmission ==
    IF SubmitIgnored
    THEN UNCHANGED <<values, fieldError, isSubmitting, sendPending, inflight,
                     orig, sendCalls, sdk, btnDisabled, btnContent,
                     successDisplay, errorDisplay, feedbackDisplay,
                     hideTimers, events, warnings, uncaught>>
    ELSE
      LET errs == ValidateRequired
          isFormValid == \A f \in RequiredFields : errs[f] = NoError
      IN
      /\ fieldError' = errs
      /\ IF ~isFormValid
         THEN \* lines 798-801
              /\ showFormMessage("error")
              /\ UNCHANGED <<values, isSubmitting, sendPending, inflight,
                             orig, sendCalls, sdk, btnDisabled, btnContent,
                             events, warnings, uncaught>>
         ELSE IF ~hasSubmitBtn
         THEN \* lines 804-806: showLoading(null) throws a TypeError before
              \* the try block is entered; the handler's promise rejects
              /\ isSubmitting' = TRUE
              /\ uncaught' = uncaught + 1
              /\ UNCHANGED <<values, sendPending, inflight, orig, sendCalls,
                             sdk, btnDisabled, btnContent, successDisplay,
                             errorDisplay, feedbackDisplay, hideTimers,
                             events, warnings>>
         ELSE IF sdk = "ready"
         THEN \* lines 804-904: suspended at await emailjs.send(...)
              /\ isSubmitting' = TRUE
              /\ orig' = btnContent
              /\ btnContent' = "loading"
              /\ btnDisabled' = TRUE
              /\ inflight' = FinalTemplateParams
              /\ sendPending' = TRUE
              /\ sendCalls' = sendCalls + 1
              /\ UNCHANGED <<values, sdk, successDisplay, errorDisplay,
                             feedbackDisplay, hideTimers, events, warnings,
                             uncaught>>
         ELSE \* emailjs is not defined: ReferenceError inside the try,
              \* then the catch (921-926) and the finally (927-930)
              /\ showFormMessage("error")
              /\ isSubmitting' = FALSE
              /\ orig' = btnContent
              /\ btnContent' = btnContent
              /\ btnDisabled' = FALSE
              /\ UNCHANGED <<values, sendPending, inflight, sendCalls, sdk,
                             events, warnings, uncaught>>

\* 'submit' listener of the form
Submit ==
    /\ isSubmitting \/ (hideTimers < MaxTimers /\ sendCalls < MaxSends)
    /\ lastOp' = IF sendPending THEN "submit_inflight" ELSE "submit"
    /\ handleContactSubmission
    /\ UNCHANGED <<hasSubmitBtn, animVars, uiVars>>

\* the finally block, lines 927-930
FinallyKeepBusy ==
    /\ isSubmitting' = TRUE
    /\ btnContent' = btnContent
    /\ btnDisabled' = btnDisabled

Finally ==
    /\ isSubmitting' = FALSE
    /\ btnContent' = orig
    /\ btnDisabled' = FALSE

\* the promise of emailjs.send resolves: lines 906-919, then the finally
SendResolve ==
    /\ sendPending
    /\ hideTimers < MaxTimers
    /\ sendPending' = FALSE
    /\ showFormMessage("success")
    /\ values' = [f \in Fields |-> DefaultValue(f)]
    /\ events' = Append(events, SubmitEventOf(inflight))
    /\ Finally
    /\ inflight' = NoPayload
    /\ lastOp' = "resolve"
    /\ UNCHANGED <<fieldError, orig, sendCalls, sdk, warnings>>
    /\ UNCHANGED <<hasSubmitBtn, uncaught, animVars, uiVars>>

\* the promise of emailjs.send rejects: the catch 921-926, then the finally
SendRejectRetry ==
    /\ sendPending
    /\ hideTimers < MaxTimers
    /\ sendCalls < MaxSends
    /\ sendCalls' = sendCalls + 1
    /\ showFormMessage("error")
    /\ lastOp' = "reject"
    /\ UNCHANGED <<values, fieldError, isSubmitting, sendPending, inflight,
                   orig, sdk, btnDisabled, btnContent, events, warnings>>
    /\ UNCHANGED <<hasSubmitBtn, uncaught, animVars, uiVars>>

SendReject ==
    /\ sendPending
    /\ hideTimers < MaxTimers
    /\ sendPending' = FALSE
    /\ showFormMessage("error")
    /\ Finally
    /\ inflight' = NoPayload
    /\ lastOp' = "reject"
    /\ UNCHANGED <<values, fieldError, orig, sendCalls, sdk, events,
                   warnings>>
    /\ UNCHANGED <<hasSubmitBtn, uncaught, animVars, uiVars>>

\* script.onload: loadEmailJS resolves, emailjs.init(publicKey)
SdkLoadedSendsLate ==
    /\ sdk = "loading"
    /\ sdk' = "ready"
    /\ lastOp' = "sdk_load"
    /\ sendCalls' = sendCalls + 1
    /\ UNCHANGED <<values, fieldError, isSubmitting, sendPending, inflight,
                   orig, btnDisabled, btnContent, successDisplay,
                   errorDisplay, feedbackDisplay, hideTimers, events,
                   warnings>>
    /\ UNCHANGED <<hasSubmitBtn, uncaught, animVars, uiVars>>

SdkLoaded ==
    /\ sdk = "loading"
    /\ sdk' = "ready"
    /\ lastOp' = "sdk_load"
    /\ UNCHANGED <<values, fieldError, isSubmitting, sendPending, inflight,
                   orig, sendCalls, btnDisabled, btnContent, successDisplay,
                   errorDisplay, feedbackDisplay, hideTimers, events,
                   warnings>>
    /\ UNCHANGED <<hasSubmitBtn, uncaught, animVars, uiVars>>

\* script.onerror: loadEmailJS rejects, caught at line 686, console.warn
SdkFailedBanner ==
    /\ sdk = "loading"
    /\ sdk' = "failed"
    /\ warnings' = warnings + 1
    /\ showFormMessage("error")
    /\ lastOp' = "sdk_error"
    /\ UNCHANGED <<values, fieldError, isSubmitting, sendPending, inflight,
                   orig, sendCalls, btnDisabled, btnContent, events>>
    /\ UNCHANGED <<hasSubmitBtn, uncaught, animVars, uiVars>>

SdkFailed ==
    /\ sdk = "loading"
    /\ sdk' = "failed"
    /\ warnings' = warnings + 1
    /\ lastOp' = "sdk_error"
    /\ UNCHANGED <<values, fieldError, isSubmitting, sendPending, inflight,
                   orig, sendCalls, btnDisabled, btnContent, successDisplay,
                   errorDisplay, feedbackDisplay, hideTimers, events>>
    /\ UNCHANGED <<hasSubmitBtn, uncaught, animVars, uiVars>>

(***************************************************************************)
(* AnimationManager: the three intersection observers.                     *)
(***************************************************************************)
\* elements of the document, one per combination of tags the observers select
Elems == {"card", "bar", "aosBar", "stat"}

\* document.querySelectorAll('[data-aos]')
HasAos(e) == e \in {"card", "aosBar", "stat"}

\* document.querySelectorAll('.skill-progress')
IsSkillBar(e) == e \in {"bar", "aosBar"}

\* document.querySelectorAll('[data-target]')
HasTarget(e) == e \in {"stat"}

\* IntersectionObserverEntry values delivered for the elements of S
Entries(S) == [target : S, isIntersecting : BOOLEAN]

\* the entry lists one callback invocation can receive
Batches(S) == UNION {[1..n -> Entries(S)] : n \in 1..MaxBatch}

\* the test of line 319: intersecting and not yet in animatedElements
ShouldAnimateAlways(entry, done) == entry.isIntersecting

ShouldAnimate(entry, done) ==
    entry.isIntersecting /\ entry.target \notin done

\* the test of line 390, against the same animatedElements set
ShouldSetWidth(entry, done) ==
    entry.isIntersecting /\ entry.target \notin done

\* the test of line 370, against countersAnimated
ShouldCount(entry, done) ==
    entry.isIntersecting /\ entry.target \notin done

\* observerCallback of setupScrollAnimations, lines 317-324; animateElement
\* (337-363) sets one timer per invocation
RECURSIVE ScrollEntries(_, _)
ScrollEntries(entries, st) ==
    IF entries = <<>> THEN st
    ELSE LET entry == Head(entries)
             t == entry.target
             next == IF ShouldAnimate(entry, st.animated)
                     THEN [animated |-> st.animated \cup {t},
                           calls |-> [st.calls EXCEPT ![t] = @ + 1],
                           timers |-> [st.timers EXCEPT ![t] = @ + 1]]
                     ELSE st
         IN ScrollEntries(Tail(entries), next)

\* how often the entries report element e as intersecting
Reports(entries, e) ==
    Cardinality({k \in 1..Len(entries) :
                    entries[k].target = e /\ entries[k].isIntersecting})

ScrollCallback(entries) ==
    LET st == ScrollEntries(entries, [animated |-> animatedElements,
                                      calls |-> animateCalls,
                                      timers |-> revealTimers])
    IN /\ \A e \in Elems : scrollReports[e] + Reports(entries, e) <= MaxReports
       /\ animatedElements' = st.animated
       /\ animateCalls' = st.calls
       /\ revealTimers' = st.timers
       /\ scrollReports' = [e \in Elems |-> scrollReports[e] + Reports(entries, e)]
       /\ UNCHANGED <<countersAnimated, aosAnimate, widthTimers, widthSet,
                      counterRuns>>
       /\ UNCHANGED <<formVars, uiVars>>

\* the arrow function of the setTimeout in animateElement, lines 341-362
RevealTimer(e) ==
    /\ revealTimers[e] > 0
    /\ revealTimers' = [revealTimers EXCEPT ![e] = @ - 1]
    /\ aosAnimate' = [aosAnimate EXCEPT ![e] = TRUE]
    /\ UNCHANGED <<animatedElements, countersAnimated, animateCalls,
                   widthTimers, widthSet, counterRuns, scrollReports>>
    /\ UNCHANGED <<formVars, uiVars>>

\* observerCallback of setupSkillBars, lines 388-398
RECURSIVE BarEntries(_, _)
BarEntries(entries, st) ==
    IF entries = <<>> THEN st
    ELSE LET entry == Head(entries)
             t == entry.target
             next == IF ShouldSetWidth(entry, st.animated)
                     THEN [animated |-> st.animated \cup {t},
                           timers |-> [st.timers EXCEPT ![t] = @ + 1]]
                     ELSE st
         IN BarEntries(Tail(entries), next)

BarCallback(entries) ==
    LET st == BarEntries(entries, [animated |-> animatedElements,
                                   timers |-> widthTimers])
    IN /\ animatedElements' = st.animated
       /\ widthTimers' = st.timers
       /\ UNCHANGED <<countersAnimated, animateCalls, revealTimers,
                      aosAnimate, widthSet, counterRuns, scrollReports>>
       /\ UNCHANGED <<formVars, uiVars>>

\* the arrow function of the setTimeout at line 392
WidthTimer(e) ==
    /\ widthTimers[e] > 0
    /\ widthTimers' = [widthTimers EXCEPT ![e] = @ - 1]
    /\ widthSet' = [widthSet EXCEPT ![e] = TRUE]
    /\ UNCHANGED <<animatedElements, countersAnimated, animateCalls,
                   revealTimers, aosAnimate, counterRuns, scrollReports>>
    /\ UNCHANGED <<formVars, uiVars>>

\* observerCallback of setupCounters, lines 368-376
RECURSIVE CounterEntries(_, _)
CounterEntries(entries, st) ==
    IF entries = <<>> THEN st
    ELSE LET entry == Head(entries)
             t == entry.target
             next == IF ShouldCount(entry, st.animated)
                     THEN [animated |-> st.animated \cup {t},
                           runs |-> [st.runs EXCEPT ![t] = @ + 1]]
                     ELSE st
         IN CounterEntries(Tail(entries), next)

CounterCallback(entries) ==
    LET st == CounterEntries(entries, [animated |-> countersAnimated,
                                       runs |-> counterRuns])
    IN /\ countersAnimated' = st.animated
       /\ counterRuns' = st.runs
       /\ UNCHANGED <<animatedElements, animateCalls, revealTimers,
                      aosAnimate, widthTimers, widthSet, scrollReports>>
       /\ UNCHANGED <<formVars, uiVars>>

(***************************************************************************)
(* Utils.animateCounter.                                                   *)
(***************************************************************************)
\* CONFIG.animations.counterSpeed, and the default of the duration parameter
CounterSpeed == 2000

\* the period of the interval timer, and the divisor of the increment
TickMs == 16

\* durations a run is made with: the configured one, and two short ones whose
\* number of steps (duration / 16) is not a whole number
Durations == {CounterSpeed, 100, 40}

CounterValues == (0 - MaxCount)..MaxCount

\* Math.floor(num / den) for den > 0
Floor(num, den) == num \div den

\* the test of line 125, on current = num / d, target = goal, and
\* increment = TickMs * diff / d with d > 0
OvershootUpOnly(diff, num, goal, d) == diff > 0 /\ num >= goal * d

Overshoot(diff, num, goal, d) ==
    \/ diff > 0 /\ num >= goal * d
    \/ diff < 0 /\ num <= goal * d

\* animateCounter(element, target, duration) up to setInterval, lines 119-123
AnimateCounterCall ==
    /\ ctrPhase = "idle"
    /\ ctrStart' = ctrText
    /\ ctrNum' = ctrText * ctrDuration
    /\ ctrPhase' = "running"
    /\ UNCHANGED <<ctrTarget, ctrDuration, ctrText>>
    /\ UNCHANGED exceptCounter

\* the interval callback, lines 123-130
CounterTick ==
    /\ ctrPhase = "running"
    /\ LET diff == ctrTarget - ctrStart
           stepped == ctrNum + TickMs * diff
           clamp == Overshoot(diff, stepped, ctrTarget, ctrDuration)
           current == IF clamp THEN ctrTarget * ctrDuration ELSE stepped
       IN /\ ctrNum' = current
          /\ ctrPhase' = IF clamp THEN "cleared" ELSE "running"
          /\ ctrText' = Floor(current, ctrDuration)
    /\ UNCHANGED <<ctrStart, ctrTarget, ctrDuration>>
    /\ UNCHANGED exceptCounter

\* no counter run has been started
InitCounterIdle ==
    /\ ctrStart = 0
    /\ ctrTarget = 0
    /\ ctrDuration = CounterSpeed
    /\ ctrNum = 0
    /\ ctrText = 0
    /\ ctrPhase = "idle"

\* a counter element showing an integer, about to be animated to a target
InitCounterRun ==
    /\ ctrText \in CounterValues
    /\ ctrTarget \in CounterValues
    /\ ctrDuration \in Durations
    /\ ctrStart = 0
    /\ ctrNum = 0
    /\ ctrPhase = "idle"

(***************************************************************************)
(* NavigationManager.                                                      *)
(***************************************************************************)
\* document.querySelectorAll('.nav-link'), in document order: the brand link
\* outside the menu, then the links inside #nav-menu, one of which points at
\* an id no element has and one of which leaves the page
NavLinks == <<"lLogo", "lHome", "lAbout", "lGhost", "lExt">>

NavLinkSet == {NavLinks[k] : k \in 1..Len(NavLinks)}

\* link.getAttribute('href').startsWith('#')
InPage(l) == l # "lExt"

\* link.getAttribute('href').substring(1)
TargetId(l) ==
    CASE l = "lLogo" -> "home"
      [] l = "lHome" -> "home"
      [] l = "lAbout" -> "about"
      [] l = "lGhost" -> "ghost"
      [] OTHER -> "none"

\* document.querySelectorAll('section[id]')
Sections == {"home", "about", "solo"}

\* the ids document.getElementById finds
ElementIds == Sections

\* where a click can land: the toggle button, a bar inside it, the menu's
\* background, a nav link, or anywhere else in the document
ClickTargets == {"toggle", "bar", "menu", "outside"} \cup NavLinkSet

\* this.navToggle.contains(e.target)
InToggle(t) == t \in {"toggle", "bar"}

\* this.navMenu.contains(e.target)
InMenu(t) == t \in {"menu", "lHome", "lAbout", "lGhost", "lExt"}

NavState == [open |-> isMenuOpen, active |-> menuActive,
             aria |-> ariaExpanded, overflow |-> bodyOverflow]

\* toggleMobileMenu, lines 229-243
toggleMobileMenuKeepAria(st) ==
    [open |-> ~st.open,
     active |-> ~st.active,
     aria |-> st.aria,
     overflow |-> IF ~st.open THEN "hidden" ELSE ""]

toggleMobileMenu(st) ==
    [open |-> ~st.open,
     active |-> ~st.active,
     aria |-> ~st.open,
     overflow |-> IF ~st.open THEN "hidden" ELSE ""]

\* closeMobileMenu, lines 245-248
closeMobileMenu(st) == IF ~st.open THEN st ELSE toggleMobileMenu(st)

\* the click listener of an in-page nav link, lines 253-262
LinkClick(l, st) ==
    IF TargetId(l) \in ElementIds THEN closeMobileMenu(st) ELSE st

\* the document click listener of setupMobileMenu, lines 213-219
OutsideClickNoToggleTest(t, st) ==
    IF st.open /\ ~InMenu(t) THEN closeMobileMenu(st) ELSE st

OutsideClick(t, st) ==
    IF st.open /\ ~InMenu(t) /\ ~InToggle(t) THEN closeMobileMenu(st) ELSE st

SetNavState(st) ==
    /\ isMenuOpen' = st.open
    /\ menuActive' = st.active
    /\ ariaExpanded' = st.aria
    /\ bodyOverflow' = st.overflow

\* one click event: the listener on the toggle (208-210) or on the link
\* (253-262) runs first, then the event bubbles to the document (213-219)
Click(t) ==
    /\ LET atTarget == IF InToggle(t) THEN toggleMobileMenu(NavState)
                       ELSE IF t \in NavLinkSet /\ InPage(t)
                       THEN LinkClick(t, NavState)
                       ELSE NavState
       IN SetNavState(OutsideClick(t, atTarget))
    /\ lastNav' = [type |-> "click", on |-> t]
    /\ UNCHANGED <<activeLinks, lastSection, sectionsSeen>>
    /\ UNCHANGED exceptNav

Keys == {"Escape", "Enter"}

\* the document keydown listener, lines 222-226
Keydown(k) ==
    /\ SetNavState(IF k = "Escape" /\ isMenuOpen
                   THEN closeMobileMenu(NavState) ELSE NavState)
    /\ lastNav' = [type |-> "keydown", on |-> k]
    /\ UNCHANGED <<activeLinks, lastSection, sectionsSeen>>
    /\ UNCHANGED exceptNav

\* document.querySelector('.nav-link[href="#id"]'): the first match, if any
LinksTo(id) == {k \in 1..Len(NavLinks) : InPage(NavLinks[k]) /\ TargetId(NavLinks[k]) = id}

ActiveLinkFor(id) ==
    IF LinksTo(id) = {} THEN {}
    ELSE {NavLinks[CHOOSE k \in LinksTo(id) : \A j \in LinksTo(id) : k <= j]}

\* line 274: remove 'active' from every nav link
KeepActive(links) == links

ClearActive(links) == {}

\* observerCallback of setupActiveLink, lines 270-285
RECURSIVE SectionEntries(_, _)
SectionEntries(entries, st) ==
    IF entries = <<>> THEN st
    ELSE LET entry == Head(entries)
             next == IF entry.isIntersecting
                     THEN [active |-> ClearActive(st.active)
                                        \cup ActiveLinkFor(entry.target),
                           last |-> entry.target,
                           seen |-> st.seen \cup {entry.target}]
                     ELSE st
         IN SectionEntries(Tail(entries), next)

SectionCallback(entries) ==
    LET st == SectionEntries(entries, [active |-> activeLinks,
                                       last |-> lastSection,
                                       seen |-> sectionsSeen])
    IN /\ activeLinks' = st.active
       /\ lastSection' = st.last
       /\ sectionsSeen' = st.seen
       /\ lastNav' = [type |-> "section", on |-> "observer"]
       /\ UNCHANGED <<isMenuOpen, menuActive, ariaExpanded, bodyOverflow>>
       /\ UNCHANGED exceptNav

\* NavigationManager constructor, lines 179-187: the menu is closed, and the
\* markup marks no link as active or the first link inside the menu
InitNavClosed ==
    /\ isMenuOpen = FALSE
    /\ menuActive = FALSE
    /\ ariaExpanded = FALSE
    /\ bodyOverflow = ""
    /\ lastSection = "none"
    /\ sectionsSeen = {}
    /\ lastNav = [type |-> "none", on |-> "none"]

InitNav == InitNavClosed /\ activeLinks \in {{}, {"lHome"}}

InitNavIdle == InitNavClosed /\ activeLinks = {}

(***************************************************************************)
(* SkillsManager and ProjectsManager.  Time is counted in steps of 50 ms.  *)
(***************************************************************************)
\* document.querySelectorAll('.skill-nav-btn'), line 503
SkillBtns == {"sbFrontend", "sbBackend", "sbDevops", "sbTools"}

\* document.querySelectorAll('.skill-category'), line 504, in document order
SkillCats == <<"scFrontend", "scBackend", "scDevops", "scTools">>

\* getAttribute('data-category') of a button or a category panel
SkillCategoryOf(el) ==
    CASE el \in {"sbFrontend", "scFrontend"} -> "frontend"
      [] el \in {"sbBackend", "scBackend"} -> "backend"
      [] el \in {"sbDevops", "scDevops"} -> "devops"
      [] OTHER -> "tools"

\* cat.querySelectorAll('.skill-progress'), line 539
SkillBars(cat) ==
    CASE cat = "scFrontend" -> <<"barA", "barB">>
      [] cat = "scBackend" -> <<"barC">>
      [] OTHER -> <<>>

AllBars == {"barA", "barB", "barC"}

\* the guards of lines 525 and 596
SameValueNever(value, current) == FALSE

SameValue(value, current) == value = current

\* classList.toggle('active', force), lines 529, 535 and 600
ToggleAddOnly(has, force) == has \/ force

ToggleForce(has, force) == force

\* setTimeout(..., index * 100), line 544
BarDelay(index) == index * 2

\* the callbacks lines 541-544 schedule for the bars of one panel
BarTimers(cat) ==
    [k \in 1..Len(SkillBars(cat)) |->
        [kind |-> "bar", el |-> SkillBars(cat)[k], left |-> BarDelay(k - 1)]]

RECURSIVE PanelTimers(_, _)
PanelTimers(cats, category) ==
    IF cats = <<>> THEN <<>>
    ELSE (IF SkillCategoryOf(Head(cats)) = category
          THEN BarTimers(Head(cats)) ELSE <<>>)
         \o PanelTimers(Tail(cats), category)

SkillCatSet == {SkillCats[k] : k \in 1..Len(SkillCats)}

\* switchCategory, lines 524-550
switchCategory(category) ==
    IF SameValue(category, currentCategory)
    THEN /\ lastUi' = [op |-> "switchCategory", arg |-> category, writes |-> 0,
                       threw |-> FALSE]
         /\ UNCHANGED <<currentCategory, skillBtnActive, skillCatActive, uiTimers>>
    ELSE LET timers == PanelTimers(SkillCats, category)
         IN /\ skillBtnActive' =
                  {b \in SkillBtns :
                      ToggleForce(b \in skillBtnActive, SkillCategoryOf(b) = category)}
            /\ skillCatActive' =
                  {c \in SkillCatSet :
                      ToggleForce(c \in skillCatActive, SkillCategoryOf(c) = category)}
            /\ uiTimers' = uiTimers \o timers
            /\ currentCategory' = category
            /\ lastUi' = [op |-> "switchCategory", arg |-> category,
                          writes |-> Cardinality(SkillBtns) + Len(SkillCats)
                                       + Len(timers),
                          threw |-> FALSE]

\* the click listener of a category button, lines 517-520
SkillClick(btn) ==
    /\ Len(uiTimers) < MaxUiTimers
    /\ switchCategory(SkillCategoryOf(btn))
    /\ UNCHANGED <<barWidth, currentFilter, filterBtnActive, cardStyle>>
    /\ UNCHANGED exceptFilter

\* document.querySelectorAll('.filter-btn'), line 574
FilterBtns == {"fbAll", "fbWeb", "fbApi", "fbOps", "fbIos"}

\* getAttribute('data-filter') of a button
FilterOf(btn) ==
    CASE btn = "fbAll" -> <<"a", "l", "l">>
      [] btn = "fbWeb" -> <<"w", "e", "b">>
      [] btn = "fbApi" -> <<"a", "p", "i">>
      [] btn = "fbOps" -> <<"o", "p", "s">>
      [] OTHER -> <<"i", "o", "s">>

\* document.querySelectorAll('.project-card'), line 575, in document order
ProjectCards == <<"cardWebApi", "cardOps", "cardBare">>

CardSet == {ProjectCards[k] : k \in 1..Len(ProjectCards)}

Null == <<"#null">>

\* card.getAttribute('data-category'): null when the attribute is missing
CardCategory(card) ==
    CASE card = "cardWebApi" -> <<"w", "e", "b", " ", "a", "p", "i">>
      [] card = "cardOps" -> <<"o", "p", "s">>
      [] OTHER -> Null

\* a || '' on an attribute value
OrEmptyKeep(a) == a

OrEmpty(a) == IF a = Null \/ a = <<>> THEN <<>> ELSE a

\* String.prototype.includes
Includes(str, sub) ==
    \E i \in 0..(Len(str) - Len(sub)) : SubSeq(str, i + 1, i + Len(sub)) = sub

\* lines 605-606
ShouldShow(filter, card) ==
    \/ filter = <<"a", "l", "l">>
    \/ Includes(OrEmpty(CardCategory(card)), filter)

\* line 606 throws a TypeError when includes is called on null
Throws(filter, card) ==
    /\ filter # <<"a", "l", "l">>
    /\ OrEmpty(CardCategory(card)) = Null

\* how many cards the forEach of line 604 handles before an exception ends it
Handled(filter) ==
    LET bad == {k \in 1..Len(ProjectCards) : Throws(filter, ProjectCards[k])}
    IN IF bad = {} THEN Len(ProjectCards)
       ELSE (CHOOSE k \in bad : \A j \in bad : k <= j) - 1

\* setTimeout(..., 50) and setTimeout(..., 300), lines 616-626
ShowDelay == 1

HideDelay == 6

\* lines 608-627 for one card
CardUpdate(filter, card, style) ==
    IF ShouldShow(filter, card)
    THEN [display |-> "block", opacity |-> "0", scale |-> "0.8",
          transition |-> "all 0.3s ease"]
    ELSE [style EXCEPT !.opacity = "0", !.scale = "0.8",
                       !.transition = "all 0.3s ease"]

CardTimers(filter) ==
    [k \in 1..Handled(filter) |->
        IF ShouldShow(filter, ProjectCards[k])
        THEN [kind |-> "show", el |-> ProjectCards[k], left |-> ShowDelay]
        ELSE [kind |-> "hide", el |-> ProjectCards[k], left |-> HideDelay]]

\* filterProjects, lines 595-631
filterProjects(filter) ==
    IF SameValue(filter, currentFilter)
    THEN /\ lastUi' = [op |-> "filterProjects", arg |-> filter, writes |-> 0,
                       threw |-> FALSE]
         /\ UNCHANGED <<currentFilter, filterBtnActive, cardStyle, uiTimers>>
    ELSE /\ filterBtnActive' =
                {b \in FilterBtns :
                    ToggleForce(b \in filterBtnActive, FilterOf(b) = filter)}
         /\ cardStyle' =
               [c \in CardSet |->
                   IF \E k \in 1..Handled(filter) : ProjectCards[k] = c
                   THEN CardUpdate(filter, c, cardStyle[c])
                   ELSE cardStyle[c]]
         /\ uiTimers' = uiTimers \o CardTimers(filter)
         /\ currentFilter' = IF Handled(filter) = Len(ProjectCards)
                             THEN filter ELSE currentFilter
         /\ lastUi' = [op |-> "filterProjects", arg |-> filter,
                       writes |-> Cardinality(FilterBtns) + 5 * Handled(filter),
                       threw |-> Handled(filter) < Len(ProjectCards)]

\* the click listener of a filter button, lines 588-591
FilterClick(btn) ==
    /\ Len(uiTimers) < MaxUiTimers
    /\ filterProjects(FilterOf(btn))
    /\ UNCHANGED <<currentCategory, skillBtnActive, skillCatActive, barWidth>>
    /\ UNCHANGED exceptFilter

\* the pending callbacks that are due, and the one the browser runs next
DueTimers == {k \in 1..Len(uiTimers) : uiTimers[k].left = 0}

RemoveAt(seq, k) == SubSeq(seq, 1, k - 1) \o SubSeq(seq, k + 1, Len(seq))

\* one timer callback: lines 542-543, 617-618 or 625
UiTimerFire ==
    /\ DueTimers # {}
    /\ LET k == CHOOSE d \in DueTimers : \A e \in DueTimers : d <= e
           t == uiTimers[k]
       IN /\ uiTimers' = RemoveAt(uiTimers, k)
          /\ barWidth' = IF t.kind = "bar"
                         THEN [barWidth EXCEPT ![t.el] = "data-width"]
                         ELSE barWidth
          /\ cardStyle' =
                CASE t.kind = "show" ->
                       [cardStyle EXCEPT ![t.el].opacity = "1", ![t.el].scale = "1"]
                  [] t.kind = "hide" ->
                       [cardStyle EXCEPT ![t.el].display = "none"]
                  [] OTHER -> cardStyle
          /\ lastUi' = [op |-> "timer", arg |-> t.kind, writes |-> 1,
                        threw |-> FALSE]
    /\ UNCHANGED <<currentCategory, skillBtnActive, skillCatActive,
                   currentFilter, filterBtnActive>>
    /\ UNCHANGED exceptFilter

\* 50 ms pass while no callback is due
UiTick ==
    /\ uiTimers # <<>>
    /\ DueTimers = {}
    /\ uiTimers' = [k \in 1..Len(uiTimers) |->
                       [uiTimers[k] EXCEPT !.left = uiTimers[k].left - 1]]
    /\ lastUi' = [op |-> "tick", arg |-> "50ms", writes |-> 0,
                  threw |-> FALSE]
    /\ UNCHANGED <<currentCategory, skillBtnActive, skillCatActive, barWidth,
                   currentFilter, filterBtnActive, cardStyle>>
    /\ UNCHANGED exceptFilter

\* the constructors, lines 502-508 and 573-579, on the page's markup: the
\* 'frontend' button and panel and the 'all' button are marked active, and
\* no card or bar has an inline style yet
InitFilter ==
    /\ currentCategory = "frontend"
    /\ skillBtnActive = {"sbFrontend"}
    /\ skillCatActive = {"scFrontend"}
    /\ barWidth = [b \in AllBars |-> ""]
    /\ currentFilter = <<"a", "l", "l">>
    /\ filterBtnActive = {"fbAll"}
    /\ cardStyle = [c \in CardSet |->
                       [display |-> "", opacity |-> "", scale |-> "",
                        transition |-> ""]]
    /\ uiTimers = <<>>
    /\ lastUi = [op |-> "none", arg |-> "none", writes |-> 0, threw |-> FALSE]

(***************************************************************************)
(* AnimationManager: the tooltips of the tech-stack items.                 *)
(***************************************************************************)
\* document.querySelectorAll('.tech-item'), line 408: an item with a
\* data-tooltip text, another one, and an item without the attribute
TechItems == {"techA", "techB", "techBare"}

\* the test of line 414 on item.getAttribute('data-tooltip')
HasTooltipText(item) == item # "techBare"

\* document.querySelector('.tooltip'): the first one in document order, which
\* is creation order since each is appended to the body
FirstTip(tips) == CHOOSE t \in tips : \A u \in tips : t <= u

\* lines 434-435
KeepExisting(tips) == tips

RemoveExisting(tips) == IF tips = {} THEN {} ELSE tips \ {FirstTip(tips)}

\* mouseenter on a tech item: lines 412-417 with showTooltip, 433-466
MouseEnter(item) ==
    /\ IF HasTooltipText(item)
       THEN /\ nextTip <= MaxTips
            /\ tooltips' = RemoveExisting(tooltips) \cup {nextTip}
            /\ tipFrames' = tipFrames \cup {nextTip}
            /\ nextTip' = nextTip + 1
            /\ UNCHANGED <<tipsOpaque, tipTimers>>
       ELSE UNCHANGED <<tooltips, tipsOpaque, tipFrames, tipTimers, nextTip>>
    /\ lastMouse' = [type |-> "mouseenter", on |-> item]
    /\ UNCHANGED exceptTip

\* the requestAnimationFrame callback of lines 462-465
TipFrame(t) ==
    /\ t \in tipFrames
    /\ tipFrames' = tipFrames \ {t}
    /\ tipsOpaque' = tipsOpaque \cup {t}
    /\ UNCHANGED <<tooltips, tipTimers, nextTip, lastMouse>>
    /\ UNCHANGED exceptTip

\* mouseleave on a tech item: lines 419-421 with hideTooltip, 468-475
MouseLeave(item) ==
    /\ IF tooltips # {}
       THEN /\ Len(tipTimers) < MaxTipTimers
            /\ tipsOpaque' = tipsOpaque \ {FirstTip(tooltips)}
            /\ tipTimers' = Append(tipTimers, FirstTip(tooltips))
       ELSE UNCHANGED <<tipsOpaque, tipTimers>>
    /\ lastMouse' = [type |-> "mouseleave", on |-> item]
    /\ UNCHANGED <<tooltips, tipFrames, nextTip>>
    /\ UNCHANGED exceptTip

\* the timer callback of line 473; the timers all wait 200 ms, so they fire
\* in the order they were set
TipTimerFire ==
    /\ tipTimers # <<>>
    /\ tooltips' = tooltips \ {Head(tipTimers)}
    /\ tipTimers' = Tail(tipTimers)
    /\ UNCHANGED <<tipsOpaque, tipFrames, nextTip, lastMouse>>
    /\ UNCHANGED exceptTip

\* no tooltip exists before the first mouseenter
InitTip ==
    /\ tooltips = {}
    /\ tipsOpaque = {}
    /\ tipFrames = {}
    /\ tipTimers = <<>>
    /\ nextTip = 1
    /\ lastMouse = [type |-> "none", on |-> "none"]

(***************************************************************************)
(* ContactFormManager.validateField on a control with any attributes.      *)
(***************************************************************************)
\* the controls validateField can be given
RuleFields ==
    [required : BOOLEAN, type : {"text", "email"}, hasMin : BOOLEAN,
     min : {MinLength, MinLength + 2}, label : {"Field"}]

\* sample values; an input of type email holds no outer whitespace
RuleValues(field) ==
    {v \in {<<>>, <<" ">>, <<"a">>, <<"a", " ">>, <<"a", "@", "a">>,
            <<"a", "@", "a", ".", "a">>} :
        field.type = "email" => Trim(v) = v}

\* clearFieldError on the error element's text, lines 770-774
clearFieldErrorKeep(slot) == slot

clearFieldError(slot) == <<>>

\* showFieldError on the error element's text, lines 759-762
showFieldError(slot, message) == <<message>>

\* the 'input' listener, lines 710-712
RuleInput(v) ==
    /\ v \in RuleValues(ruleField)
    /\ v # ruleValue
    /\ ruleValue' = v
    /\ ruleSlot' = clearFieldError(ruleSlot)
    /\ lastRule' = [op |-> "input", before |-> ruleSlot]
    /\ UNCHANGED ruleField
    /\ UNCHANGED exceptRule

\* the 'blur' listener, lines 706-708: validateField, lines 723-756
RuleBlur ==
    /\ LET cleared == clearFieldError(ruleSlot)
           message == RuleMessage(ruleField, ruleValue)
       IN ruleSlot' = IF message # NoError
                      THEN showFieldError(cleared, message)
                      ELSE cleared
    /\ lastRule' = [op |-> "validate", before |-> ruleSlot]
    /\ UNCHANGED <<ruleField, ruleValue>>
    /\ UNCHANGED exceptRule

\* an untouched control of the form
InitRuleIdle ==
    /\ ruleField = FieldOf("message")
    /\ ruleValue = <<>>
    /\ ruleSlot = <<>>
    /\ lastRule = [op |-> "none", before |-> <<>>]

\* an untouched control of any kind
InitRuleAny ==
    /\ ruleField \in RuleFields
    /\ ruleValue = <<>>
    /\ ruleSlot = <<>>
    /\ lastRule = [op |-> "none", before |-> <<>>]

(***************************************************************************)
(* handleContactSubmission: the value of one field in the payload, when    *)
(* the FormData entry and the element found by the direct lookup differ.   *)
(***************************************************************************)
\* JavaScript truthiness of a string or undefined
Truthy(a) == a # <<>> /\ a # Undefined

\* JavaScript a || b
OrJs(a, b) == IF Truthy(a) THEN a ELSE b

\* lines 837-842: if (field?.value) templateParams[f] = field.value
DirectOverride(fromFormData, direct) ==
    IF Truthy(direct) THEN direct ELSE fromFormData

\* lines 851-856: templateParams[f] || field?.value || ''
FinalValue(fromFormData, direct) ==
    OrJs(DirectOverride(fromFormData, direct), OrJs(direct, <<>>))

\* the name the value of field f has in finalTemplateParams, lines 887-893
PayloadKey(f) ==
    CASE f = "name" -> "user_name"
      [] f = "email" -> "user_email"
      [] f = "company" -> "user_company"
      [] f = "budget" -> "user_budget"
      [] f = "service" -> "user_service"
      [] f = "message" -> "user_message"

\* what formData.entries() can yield for a key: no entry, '', or a string
PrimaryValues == {Undefined, <<>>, <<"A">>, <<"B">>}

\* what field?.value can be: no element found, '', or a string
DirectValues == {Undefined, <<>>, <<"A">>}

NotBuilt == [none |-> TRUE]

\* lines 810-894 for one field
BuildPayload ==
    /\ payOut = NotBuilt
    /\ payOut' = [key |-> PayloadKey(payField),
                  value |-> FinalValue(payPrimary, payDirect)]
    /\ UNCHANGED <<payField, payPrimary, payDirect>>
    /\ UNCHANGED exceptPay

\* the next submission reads the form again
ReadForm(p, d) ==
    /\ payOut # NotBuilt
    /\ payPrimary' = p
    /\ payDirect' = d
    /\ payOut' = NotBuilt
    /\ UNCHANGED payField
    /\ UNCHANGED exceptPay

InitPayIdle ==
    /\ payField = "name"
    /\ payPrimary = <<>>
    /\ payDirect = <<>>
    /\ payOut = NotBuilt

InitPayAny ==
    /\ payField \in Fields
    /\ payPrimary \in PrimaryValues
    /\ payDirect \in DirectValues
    /\ payOut = NotBuilt

(***************************************************************************)
(* Which controller writes which element.                                  *)
(***************************************************************************)
\* the elements the handlers below write
OwnedElements ==
    AllBars \cup SkillBtns \cup SkillCatSet \cup
    {"navMenu", "navToggle", "body", "filterBtn", "projectCard",
     "fieldError", "field", "techItem", "loadingOverlay"}

\* element.classList / element.style / textContent written by controller c
Written(writers, els, c) ==
    [e \in OwnedElements |-> IF e \in els THEN writers[e] \cup {c} ELSE writers[e]]

\* the skill-bar observer callback of AnimationManager, lines 388-398
OwnBarObserved(bar) ==
    /\ ShouldSetWidth([target |-> bar, isIntersecting |-> TRUE], ownAnimated)
    /\ ownTimers' = ownTimers \cup {[by |-> "animations", el |-> bar]}
    /\ ownAnimated' = ownAnimated \cup {bar}
    /\ UNCHANGED <<elWriters, ownCategory>>
    /\ UNCHANGED exceptOwn

\* SkillsManager.switchCategory, lines 524-550
OwnSwitchCategory(btn) ==
    /\ ~SameValue(SkillCategoryOf(btn), ownCategory)
    /\ LET timers == PanelTimers(SkillCats, SkillCategoryOf(btn))
       IN ownTimers' = ownTimers \cup
             {[by |-> "skills", el |-> timers[k].el] : k \in 1..Len(timers)}
    /\ elWriters' = Written(elWriters, SkillBtns \cup SkillCatSet, "skills")
    /\ ownCategory' = SkillCategoryOf(btn)
    /\ UNCHANGED ownAnimated
    /\ UNCHANGED exceptOwn

\* the timer callbacks of line 393 and of lines 541-544: style.width
OwnBarTimer(t) ==
    /\ t \in ownTimers
    /\ ownTimers' = ownTimers \ {t}
    /\ elWriters' = Written(elWriters, {t.el}, t.by)
    /\ UNCHANGED <<ownAnimated, ownCategory>>
    /\ UNCHANGED exceptOwn

\* the other handlers, by the elements they write:
\*   navigation   toggleMobileMenu, lines 229-243
\*   projects     filterProjects, lines 595-631
\*   contactForm  showFieldError, lines 758-767
\*   animations   the click listener of a tech item, lines 424-429
\*   app          handleResize, lines 1208-1222, and hideLoadingOverlay
HandlerWrites ==
    {[by |-> "navigation", els |-> {"navMenu", "navToggle", "body"}],
     [by |-> "projects", els |-> {"filterBtn", "projectCard"}],
     [by |-> "contactForm", els |-> {"fieldError", "field"}],
     [by |-> "animations", els |-> {"techItem"}],
     [by |-> "app", els |-> {"techItem"}],
     [by |-> "app", els |-> {"loadingOverlay"}]}

OwnHandler(h) ==
    /\ elWriters' = Written(elWriters, h.els, h.by)
    /\ elWriters' # elWriters
    /\ UNCHANGED <<ownTimers, ownAnimated, ownCategory>>
    /\ UNCHANGED exceptOwn

\* right after bootstrap nothing has been written
InitOwn ==
    /\ elWriters = [e \in OwnedElements |-> {}]
    /\ ownTimers = {}
    /\ ownAnimated = {}
    /\ ownCategory = "frontend"

(***************************************************************************)
(* TechnicalShowcaseApp.init.                                              *)
(***************************************************************************)
\* the constructors init calls, in its order: lines 1128-1133
InitOrder ==
    <<"navigation", "animations", "skills", "projects", "contactForm",
      "performance">>

Components == {InitOrder[k] : k \in 1..Len(InitOrder)}

\* how many constructors return before one throws
BuiltBeforeThrow(faulty) ==
    IF faulty \in Components
    THEN (CHOOSE k \in 1..Len(InitOrder) : InitOrder[k] = faulty) - 1
    ELSE Len(InitOrder)

\* init up to its await (line 1139), or to the end of its catch block
AppInitCatchKeepsOverlay ==
    /\ initCalls < MaxInitCalls
    /\ initCalls' = initCalls + 1
    /\ IF isInitialized
       THEN UNCHANGED <<appBuilt, appListeners, overlayDisplay, overlayOpacity,
                        overlayTimers, initSuspended>>
       ELSE /\ overlayDisplay' = "flex"
            /\ appBuilt' =
                  [c \in Components |->
                      IF \E k \in 1..BuiltBeforeThrow(appFaulty) : InitOrder[k] = c
                      THEN appBuilt[c] + 1 ELSE appBuilt[c]]
            /\ IF appFaulty \in Components
               THEN UNCHANGED <<overlayOpacity, overlayTimers, appListeners,
                                initSuspended>>
               ELSE /\ appListeners' = appListeners + 1
                    /\ initSuspended' = initSuspended + 1
                    /\ UNCHANGED <<overlayOpacity, overlayTimers>>
    /\ UNCHANGED <<appFaulty, isInitialized>>
    /\ UNCHANGED exceptApp

AppInit ==
    /\ initCalls < MaxInitCalls
    /\ initCalls' = initCalls + 1
    /\ IF isInitialized
       THEN UNCHANGED <<appBuilt, appListeners, overlayDisplay, overlayOpacity,
                        overlayTimers, initSuspended>>
       ELSE /\ overlayDisplay' = "flex"
            /\ appBuilt' =
                  [c \in Components |->
                      IF \E k \in 1..BuiltBeforeThrow(appFaulty) : InitOrder[k] = c
                      THEN appBuilt[c] + 1 ELSE appBuilt[c]]
            /\ IF appFaulty \in Components
               THEN /\ overlayOpacity' = "0"
                    /\ overlayTimers' = overlayTimers + 1
                    /\ UNCHANGED <<appListeners, initSuspended>>
               ELSE /\ appListeners' = appListeners + 1
                    /\ initSuspended' = initSuspended + 1
                    /\ UNCHANGED <<overlayOpacity, overlayTimers>>
    /\ UNCHANGED <<appFaulty, isInitialized>>
    /\ UNCHANGED exceptApp

\* init after its await: lines 1142-1147
AppResume ==
    /\ initSuspended > 0
    /\ initSuspended' = initSuspended - 1
    /\ isInitialized' = TRUE
    /\ overlayOpacity' = "0"
    /\ overlayTimers' = overlayTimers + 1
    /\ UNCHANGED <<appFaulty, appBuilt, appListeners, overlayDisplay, initCalls>>
    /\ UNCHANGED exceptApp

\* the timer of hideLoadingOverlay, lines 1166-1168
OverlayTimer ==
    /\ overlayTimers > 0
    /\ overlayTimers' = overlayTimers - 1
    /\ overlayDisplay' = "none"
    /\ UNCHANGED <<appFaulty, appBuilt, appListeners, isInitialized,
                   overlayOpacity, initSuspended, initCalls>>
    /\ UNCHANGED exceptApp

\* the application object after its constructor, lines 1115-1118
InitAppState ==
    /\ appBuilt = [c \in Components |-> 0]
    /\ appListeners = 0
    /\ isInitialized = FALSE
    /\ overlayDisplay = ""
    /\ overlayOpacity = ""
    /\ overlayTimers = 0
    /\ initSuspended = 0
    /\ initCalls = 0

InitAppIdle == appFaulty = "none" /\ InitAppState

\* a page or browser on which one of the constructors throws, or none does
InitAppAny == appFaulty \in Components \cup {"none"} /\ InitAppState

(***************************************************************************)
(* PerformanceMonitor.                                                     *)
(***************************************************************************)
\* the metrics the listeners and observers set, lines 1003-1006, 1043, 1064,
\* 1081; 0 stands for a property not set yet
MetricNames == {"pageLoadTime", "largestContentfulPaint"}

MetricValues == {1, 2}

\* the error types of setupErrorTracking, lines 1015-1031
ErrorTypes == {"JavaScript Error", "Unhandled Promise Rejection"}

\* the references getReport copies into the report: it copies neither object
MetricsRef == "metrics"

ErrorsRef == "errors"

\* reading an object through a reference
Deref(heap, ref) == heap[ref]

\* this.metrics.x = v: the metrics object is changed in place
MetricUpdate(m, v) ==
    /\ Deref(perfHeap, MetricsRef)[m] # v
    /\ perfHeap' = [perfHeap EXCEPT ![MetricsRef][m] = v]
    /\ UNCHANGED perfReports
    /\ UNCHANGED exceptPerf

\* the error and unhandledrejection listeners: logError, lines 1091-1097
ErrorEvent(type) ==
    /\ Len(Deref(perfHeap, ErrorsRef)) < MaxErrors
    /\ perfHeap' = [perfHeap EXCEPT ![ErrorsRef] = Append(@, type)]
    /\ UNCHANGED perfReports
    /\ UNCHANGED exceptPerf

\* getReport, lines 1099-1107
getReport ==
    [metrics |-> MetricsRef, errors |-> ErrorsRef]

GetReport ==
    /\ Len(perfReports) < MaxPerfReports
    /\ perfReports' = Append(perfReports,
                             [report |-> getReport,
                              sawMetrics |-> Deref(perfHeap, getReport.metrics),
                              sawErrors |-> Deref(perfHeap, getReport.errors)])
    /\ UNCHANGED perfHeap
    /\ UNCHANGED exceptPerf

\* the constructor, lines 983-990
InitPerf ==
    /\ perfHeap = [metrics |-> [m \in MetricNames |-> 0], errors |-> <<>>]
    /\ perfReports = <<>>

(***************************************************************************)
(* deploy.sh.  The script runs under set -e: the first command that fails  *)
(* outside a condition ends it with a non-zero status.                     *)
(***************************************************************************)
\* BUILD_DIR, line 43, and the directories clean_build creates, line 165
BuildDir == "dist"

CleanDirs == {"dist", "dist/css", "dist/js", "dist/images", "dist/fonts", "dist/docs"}

WellKnownDir == "dist/.well-known"

\* the directory a path lies in
Parent(path) ==
    CASE path \in {"dist/css/style.css", "dist/css/style.min.css"} -> "dist/css"
      [] path = "dist/js/main.js" -> "dist/js"
      [] path = "dist/.well-known/security.txt" -> WellKnownDir
      [] OTHER -> "dist"

\* PROJECT_NAME with PROD_BUCKET, STAGING_BUCKET, LOGS_BUCKET, lines 24, 34-36
ProdBucket == "gabriele-showcase-prod"

StagingBucket == "gabriele-showcase-staging"

LogsBucket == "gabriele-showcase-logs"

\* cmd > path: the redirection fails when the directory does not exist
RECURSIVE WriteAll(_, _)
WriteAll(st, paths) ==
    IF paths = <<>> \/ ~st.ok THEN st
    ELSE WriteAll(IF Parent(Head(paths)) \in st.dirs
                  THEN [st EXCEPT !.files = @ \cup {Head(paths)}]
                  ELSE [st EXCEPT !.ok = FALSE],
                  Tail(paths))

Fail(st, line) == [st EXCEPT !.ok = FALSE, !.log = Append(@, line)]

Say(st, line) == IF st.ok THEN [st EXCEPT !.log = Append(@, line)] ELSE st

\* the case statement of deploy_to_s3, lines 571-582 (invalidate_cloudfront
\* has the same one, lines 634-645)
BucketOf(environment) ==
    CASE environment = "production" -> ProdBucket
      [] environment = "staging" -> StagingBucket
      [] OTHER -> "none"

\* the case statement of test_deployment, lines 808-819
TestableEnv(environment) == environment \in {"production", "staging"}

\* aws s3api create-bucket for a bucket head-bucket does not find, 462-497
RECURSIVE CreateBuckets(_, _)
CreateBuckets(st, names) ==
    IF names = <<>> THEN st
    ELSE CreateBuckets(
            IF Head(names) \in st.buckets THEN st
            ELSE [st EXCEPT !.buckets = @ \cup {Head(names)},
                            !.aws = Append(@, <<"create-bucket", Head(names)>>)],
            Tail(names))

\* one function of the script, run on the state st of files, buckets and log
RunFunction(fn, src, environment, st) ==
    CASE fn = "check_dependencies" ->
           IF src.toolsOk THEN st ELSE Fail(st, "Missing dependencies")
      [] fn = "clean_build" ->
           [st EXCEPT !.dirs = CleanDirs, !.files = {}]
      [] fn = "install_build_dependencies" ->
           IF src.packageJson THEN st ELSE Fail(st, "package.json not found")
      [] fn = "optimize_html" ->
           WriteAll(st, <<"dist/index.html">>)
      [] fn = "optimize_css" ->
           IF src.css
           THEN WriteAll(st, <<"dist/css/style.css", "dist/css/style.min.css">>)
           ELSE st
      [] fn = "optimize_javascript" ->
           IF src.js THEN WriteAll(st, <<"dist/js/main.js">>) ELSE st
      [] fn = "copy_assets" ->
           st
      [] fn = "generate_seo_files" ->
           LET written == WriteAll(st, <<"dist/robots.txt", "dist/sitemap.xml",
                                         "dist/.well-known/security.txt">>)
           IN IF written.ok
              THEN [written EXCEPT !.dirs = @ \cup {WellKnownDir}]
              ELSE written
      [] fn = "add_security_headers" ->
           WriteAll(st, <<"dist/_headers">>)
      [] fn = "validate_build" ->
           IF "dist/index.html" \in st.files
           THEN st ELSE Fail(st, "Missing required files")
      [] fn = "build_done" ->
           Say(st, "Build completed successfully!")
      [] fn = "create_s3_buckets" ->
           CreateBuckets(st, <<ProdBucket, StagingBucket, LogsBucket>>)
      [] fn = "configure_s3_hosting" ->
           [st EXCEPT !.aws = @ \o <<<<"website", ProdBucket>>,
                                     <<"website", StagingBucket>>>>]
      [] fn = "set_s3_bucket_policies" ->
           [st EXCEPT !.aws = @ \o <<<<"put-bucket-policy", ProdBucket>>,
                                     <<"put-bucket-policy", StagingBucket>>>>]
      [] fn = "deploy_to_s3" ->
           IF BucketOf(environment) = "none"
           THEN Fail(st, "Invalid environment")
           ELSE [st EXCEPT !.aws = Append(@, <<"sync", BucketOf(environment)>>)]
      [] fn = "invalidate_cloudfront" ->
           IF BucketOf(environment) = "none"
           THEN Fail(st, "Invalid environment") ELSE st
      [] fn = "setup_monitoring" ->
           st
      [] fn = "deploy_done" ->
           Say(st, "Deployment completed!")
      [] fn = "test_deployment" ->
           IF TestableEnv(environment)
           THEN Say(st, "Testing completed")
           ELSE Fail(st, "Invalid environment for testing")
      [] fn = "show_help" ->
           Say(st, "USAGE")
      [] OTHER ->
           Fail(st, "Unknown command")

\* build, lines 744-762
BuildProgram ==
    <<"check_dependencies", "clean_build", "install_build_dependencies",
      "optimize_html", "optimize_css", "optimize_javascript", "copy_assets",
      "generate_seo_files", "add_security_headers", "validate_build",
      "build_done">>

\* deploy, lines 764-802: it builds first when there is no build directory
DeployProgram(dirs) ==
    (IF BuildDir \in dirs THEN <<>> ELSE BuildProgram)
    \o <<"create_s3_buckets", "configure_s3_hosting", "set_s3_bucket_policies",
         "deploy_to_s3", "invalidate_cloudfront", "setup_monitoring",
         "deploy_done">>

\* main, lines 895-927
MainProgram(command, dirs) ==
    CASE command = "build" -> BuildProgram
      [] command = "deploy" -> DeployProgram(dirs)
      [] command = "test" -> <<"test_deployment">>
      [] command = "help" -> <<"show_help">>
      [] OTHER -> <<"unknown_command">>

\* local env="${2:-staging}", lines 903 and 907
EnvOrDefault(arg) == IF arg = "" THEN "staging" ELSE arg

\* the script is started
ShStart ==
    /\ shExit = "idle"
    /\ shProgram' = MainProgram(shCmd, shDirs)
    /\ shExit' = "running"
    /\ UNCHANGED <<shCmd, shEnv, shSrc, shDirs, shFiles, shBuckets, shAws, shLog>>
    /\ UNCHANGED exceptSh

\* the next function of the command runs; a failure ends the script
ShStep ==
    /\ shExit = "running"
    /\ shProgram # <<>>
    /\ LET st == RunFunction(Head(shProgram), shSrc, EnvOrDefault(shEnv),
                             [ok |-> TRUE, dirs |-> shDirs, files |-> shFiles,
                              buckets |-> shBuckets, aws |-> shAws,
                              log |-> shLog])
       IN /\ shDirs' = st.dirs
          /\ shFiles' = st.files
          /\ shBuckets' = st.buckets
          /\ shAws' = st.aws
          /\ shLog' = st.log
          /\ shProgram' = IF st.ok THEN Tail(shProgram) ELSE <<>>
          /\ shExit' = IF ~st.ok THEN "1"
                       ELSE IF Tail(shProgram) = <<>> THEN "0"
                       ELSE "running"
    /\ UNCHANGED <<shCmd, shEnv, shSrc>>
    /\ UNCHANGED exceptSh

\* the script is not being run
InitShIdle ==
    /\ shCmd = "help"
    /\ shEnv = ""
    /\ shSrc = [toolsOk |-> TRUE, packageJson |-> TRUE, css |-> TRUE, js |-> TRUE]
    /\ shDirs = {}
    /\ shFiles = {}
    /\ shBuckets = {}
    /\ shAws = <<>>
    /\ shLog = <<>>
    /\ shProgram = <<>>
    /\ shExit = "idle"

ShCommands == {"build", "deploy", "test", "help", "publish"}

ShEnvironments == {"", "staging", "production", "prod", "qa"}

\* a complete build as a working build step would leave it
FullBuild ==
    {"dist/index.html", "dist/css/style.css", "dist/css/style.min.css",
     "dist/js/main.js", "dist/robots.txt", "dist/sitemap.xml", "dist/_headers",
     "dist/.well-known/security.txt"}

\* the script about to run with any command, on a clean tree or on one that
\* has a build directory, with the buckets missing or already created
InitShAny ==
    /\ shCmd \in ShCommands
    /\ shEnv \in ShEnvironments
    /\ shSrc \in [toolsOk : BOOLEAN, packageJson : BOOLEAN,
                  css : BOOLEAN, js : BOOLEAN]
    /\ \/ shDirs = {} /\ shFiles = {}
       \/ shDirs = CleanDirs \cup {WellKnownDir} /\ shFiles = FullBuild
    /\ shBuckets \in {{}, {ProdBucket, StagingBucket, LogsBucket}}
    /\ shAws = <<>>
    /\ shLog = <<>>
    /\ shProgram = <<>>
    /\ shExit = "idle"

(***************************************************************************)
(* The throttled scroll listeners of NavigationManager and                 *)
(* AnimationManager.                                                       *)
(***************************************************************************)
\* the scroll positions told apart by the two thresholds, in pixels
ScrollPositions == {0, 100, 101, 300, 301, 600}

\* the limit of 100 ms given to Utils.throttle, in units of 50 ms
ThrottleLimit == 2

\* Utils.getScrollPosition, lines 111-113
getScrollPosition(y) == y

\* the callback given to throttle in setupScrollEffect, lines 197-200
NavScrolledAt(y) == getScrollPosition(y) > 100

\* the callback given to throttle in setupBackToTop, lines 481-484
BackToTopAt(y) == IF getScrollPosition(y) > 300 THEN "flex" ELSE "none"

\* the test of Utils.throttle, line 76: the call goes through only when the
\* previous one is at least limit ms old
ThrottlePasses(inThrottle) == ~inThrottle

\* the window scrolls to y and the 'scroll' event reaches both listeners,
\* each behind its own Utils.throttle (lines 71-82)
ScrollEvent(y) ==
    /\ y # scrollY
    /\ scrollY' = y
    /\ scrollSeen' = TRUE
    /\ IF ThrottlePasses(navInThrottle)
       THEN /\ navScrolled' = NavScrolledAt(y)
            /\ navInThrottle' = TRUE
            /\ navLeft' = ThrottleLimit
       ELSE UNCHANGED <<navScrolled, navInThrottle, navLeft>>
    /\ IF ThrottlePasses(topInThrottle)
       THEN /\ backToTopDisplay' = BackToTopAt(y)
            /\ topInThrottle' = TRUE
            /\ topLeft' = ThrottleLimit
       ELSE UNCHANGED <<backToTopDisplay, topInThrottle, topLeft>>
    /\ UNCHANGED exceptScroll

\* setTimeout(() => inThrottle = false, limit) of the navbar's handler
NavThrottleTimer ==
    /\ navInThrottle
    /\ navLeft = 0
    /\ navInThrottle' = FALSE
    /\ UNCHANGED <<scrollY, scrollSeen, navScrolled, backToTopDisplay, navLeft,
                   topInThrottle, topLeft>>
    /\ UNCHANGED exceptScroll

\* setTimeout(() => inThrottle = false, limit) of the button's handler
TopThrottleTimer ==
    /\ topInThrottle
    /\ topLeft = 0
    /\ topInThrottle' = FALSE
    /\ UNCHANGED <<scrollY, scrollSeen, navScrolled, backToTopDisplay,
                   navInThrottle, navLeft, topLeft>>
    /\ UNCHANGED exceptScroll

\* 50 ms pass while no throttle timer is due
ScrollTick ==
    /\ navInThrottle \/ topInThrottle
    /\ ~(navInThrottle /\ navLeft = 0)
    /\ ~(topInThrottle /\ topLeft = 0)
    /\ navLeft' = IF navInThrottle THEN navLeft - 1 ELSE navLeft
    /\ topLeft' = IF topInThrottle THEN topLeft - 1 ELSE topLeft
    /\ UNCHANGED <<scrollY, scrollSeen, navScrolled, backToTopDisplay,
                   navInThrottle, topInThrottle>>
    /\ UNCHANGED exceptScroll

\* the page at the top, right after the two listeners were registered
InitScroll ==
    /\ scrollY = 0
    /\ scrollSeen = FALSE
    /\ navScrolled = FALSE
    /\ backToTopDisplay = ""
    /\ navInThrottle = FALSE
    /\ navLeft = 0
    /\ topInThrottle = FALSE
    /\ topLeft = 0

(***************************************************************************)
(* infrastructure/test-deployment.sh.  It runs under set -euo pipefail     *)
(* (line 6): a function that returns non-zero, or an assignment whose      *)
(* pipeline fails, ends the script when it is not part of a condition.     *)
(***************************************************************************)
\* test_passed, test_failed, test_warning, lines 53-66, n times
Passed(st, n) == [st EXCEPT !.passed = @ + n]

Failed(st, n) == [st EXCEPT !.failed = @ + n]

Warned(st, n) == [st EXCEPT !.warned = @ + n]

\* a return 1, or a failing command, outside a condition
Abort(st) == [st EXCEPT !.ok = FALSE]

\* the body curl receives: none when the connection fails (|| echo "")
ContentOf(site) == IF site.http = "000" THEN "empty" ELSE site.content

\* test_http_status, lines 69-85
test_http_status(site, st) ==
    IF site.http = "200" THEN Passed(st, 1) ELSE Abort(Failed(st, 1))

\* test_https_redirect, lines 87-102: without a Location header grep finds
\* nothing and the pipeline of line 95 fails
test_https_redirect(site, st) ==
    IF site.http = "000" \/ site.redirect = "none" THEN Abort(st)
    ELSE IF site.redirect = "https" THEN Passed(st, 1)
    ELSE Failed(st, 1)

\* test_ssl_certificate, lines 104-122: without a notAfter line the pipeline
\* of line 112 fails
test_ssl_certificate(site, st) ==
    IF site.http = "000" \/ site.ssl = "failed" THEN Failed(st, 1)
    ELSE IF site.ssl = "nodates" THEN Abort(st)
    ELSE Passed(st, 1)

\* test_security_headers, lines 124-153
test_security_headers(site, st) ==
    IF site.http # "000" /\ site.headers = "full"
    THEN Passed(st, 4) ELSE Warned(st, 1)

\* test_performance_metrics, lines 155-192
test_performance_metrics(site, st) ==
    IF site.http = "000" THEN Failed(st, 1)
    ELSE IF site.fast THEN Passed(st, 2) ELSE Warned(st, 2)

\* test_content_validity, lines 194-246
test_content_validity(site, st) ==
    CASE ContentOf(site) = "empty" -> Abort(Failed(st, 1))
      [] ContentOf(site) = "full" -> Passed(st, 10)
      [] OTHER -> Warned(Failed(st, 9), 1)

\* test_cdn_functionality, lines 248-270
test_cdn_functionality(site, st) ==
    IF site.http # "000" /\ site.headers = "full"
    THEN Passed(st, 2) ELSE Warned(st, 2)

\* test_mobile_responsiveness, lines 272-295
test_mobile_responsiveness(site, st) ==
    CASE ContentOf(site) = "empty" -> Failed(st, 1)
      [] ContentOf(site) = "full" -> Passed(st, 2)
      [] OTHER -> Warned(Passed(st, 1), 1)

\* test_seo_elements, lines 297-324
test_seo_elements(site, st) ==
    IF ContentOf(site) = "full" THEN Passed(st, 7) ELSE Warned(st, 7)

\* test_dns_configuration, lines 379-406, for its two domains
test_dns_configuration(dns, st) ==
    CASE dns = "v4v6" -> Passed(st, 4)
      [] dns = "v4" -> Warned(Passed(st, 2), 2)
      [] OTHER -> Warned(Failed(st, 2), 2)

\* test_error_pages, lines 408-421
test_error_pages(site, st) ==
    IF site.http # "000" /\ site.spa THEN Passed(st, 1) ELSE Warned(st, 1)

\* test_infrastructure_health, lines 424-446
test_infrastructure_health(site, st) ==
    LET robots == IF site.http # "000" THEN Passed(st, 1) ELSE Warned(st, 1)
    IN IF site.http # "000" /\ site.headers = "full"
       THEN Passed(robots, 1) ELSE Warned(robots, 1)

\* generate_report, lines 449-495
generate_report(st) ==
    LET total == st.passed + st.failed + st.warned
        summary == [total |-> total, passed |-> st.passed,
                    failed |-> st.failed, warnings |-> st.warned]
    IN IF st.failed = 0
       THEN [st EXCEPT !.report = Append(@, summary)]
       ELSE Abort([st EXCEPT !.report = Append(@, summary)])

Call(fn, on) == [fn |-> fn, on |-> on]

\* test_production_environment, lines 327-360
ProductionChecks ==
    <<Call("test_http_status", "production"),
      Call("test_https_redirect", "production"),
      Call("test_ssl_certificate", "production"),
      Call("test_security_headers", "production"),
      Call("test_performance_metrics", "production"),
      Call("test_content_validity", "production"),
      Call("test_cdn_functionality", "production"),
      Call("test_mobile_responsiveness", "production"),
      Call("test_seo_elements", "production")>>
    \o [k \in 1..6 |-> Call("test_http_status", "production")]

\* test_staging_environment, lines 362-377
StagingChecks ==
    <<Call("test_http_status", "staging"),
      Call("test_https_redirect", "staging"),
      Call("test_ssl_certificate", "staging"),
      Call("test_content_validity", "staging"),
      Call("test_performance_metrics", "staging")>>

DnsChecks == <<Call("test_dns_configuration", "dns")>>

ErrorPageChecks == <<Call("test_error_pages", "production")>>

HealthChecks == <<Call("test_infrastructure_health", "production")>>

\* the case statement of main, lines 519-539
ChecksOf(environment) ==
    CASE environment \in {"production", "prod"} ->
           ProductionChecks \o DnsChecks \o ErrorPageChecks \o HealthChecks
      [] environment = "staging" -> StagingChecks
      [] environment = "dns" -> DnsChecks
      [] OTHER ->
           ProductionChecks \o StagingChecks \o DnsChecks \o ErrorPageChecks
           \o HealthChecks

\* main, lines 498-542: the checks of the environment, then generate_report
TdProgramOf(environment) ==
    ChecksOf(environment) \o <<Call("generate_report", "none")>>

\* one call of the program, on the answers of the origin it is made on
RunCheck(call, sites, st) ==
    LET site == IF call.on = "staging" THEN sites.staging ELSE sites.production
    IN CASE call.fn = "test_http_status" -> test_http_status(site, st)
         [] call.fn = "test_https_redirect" -> test_https_redirect(site, st)
         [] call.fn = "test_ssl_certificate" -> test_ssl_certificate(site, st)
         [] call.fn = "test_security_headers" -> test_security_headers(site, st)
         [] call.fn = "test_performance_metrics" ->
              test_performance_metrics(site, st)
         [] call.fn = "test_content_validity" -> test_content_validity(site, st)
         [] call.fn = "test_cdn_functionality" -> test_cdn_functionality(site, st)
         [] call.fn = "test_mobile_responsiveness" ->
              test_mobile_responsiveness(site, st)
         [] call.fn = "test_seo_elements" -> test_seo_elements(site, st)
         [] call.fn = "test_dns_configuration" ->
              test_dns_configuration(sites.dns, st)
         [] call.fn = "test_error_pages" -> test_error_pages(site, st)
         [] call.fn = "test_infrastructure_health" ->
              test_infrastructure_health(site, st)
         [] OTHER -> generate_report(st)

\* the script is started with its dependencies installed
TdStart ==
    /\ tdExit = "idle"
    /\ tdProgram' = TdProgramOf(tdEnv)
    /\ tdExit' = "running"
    /\ UNCHANGED <<tdEnv, tdSite, tdCounts, tdReport>>
    /\ UNCHANGED exceptTd

\* the next function of the run is called; a failure ends the script
TdStep ==
    /\ tdExit = "running"
    /\ tdProgram # <<>>
    /\ LET st == RunCheck(Head(tdProgram), tdSite,
                          [ok |-> TRUE, passed |-> tdCounts.passed,
                           failed |-> tdCounts.failed,
                           warned |-> tdCounts.warned, report |-> tdReport])
       IN /\ tdCounts' = [passed |-> st.passed, failed |-> st.failed,
                          warned |-> st.warned]
          /\ tdReport' = st.report
          /\ tdProgram' = IF st.ok THEN Tail(tdProgram) ELSE <<>>
          /\ tdExit' = IF ~st.ok THEN "1"
                       ELSE IF Tail(tdProgram) = <<>> THEN "0"
                       ELSE "running"
    /\ UNCHANGED <<tdEnv, tdSite>>
    /\ UNCHANGED exceptTd

\* an origin on which every check passes
Healthy ==
    [http |-> "200", redirect |-> "https", ssl |-> "valid", headers |-> "full",
     fast |-> TRUE, content |-> "full", spa |-> TRUE]

\* the answers an origin may give: healthy, or off in one respect
SiteAnswers ==
    {Healthy,
     [Healthy EXCEPT !.http = "500"],
     [Healthy EXCEPT !.http = "000"],
     [Healthy EXCEPT !.redirect = "none"],
     [Healthy EXCEPT !.redirect = "http"],
     [Healthy EXCEPT !.ssl = "failed"],
     [Healthy EXCEPT !.ssl = "nodates"],
     [Healthy EXCEPT !.headers = "bare", !.fast = FALSE, !.spa = FALSE],
     [Healthy EXCEPT !.content = "partial"],
     [Healthy EXCEPT !.content = "empty"]}

TdEnvironments == {"production", "prod", "staging", "dns", "all", "qa"}

NoCounts == [passed |-> 0, failed |-> 0, warned |-> 0]

\* the script is not being run
InitTdIdle ==
    /\ tdEnv = "all"
    /\ tdSite = [production |-> Healthy, staging |-> Healthy, dns |-> "v4v6"]
    /\ tdProgram = <<>>
    /\ tdCounts = NoCounts
    /\ tdReport = <<>>
    /\ tdExit = "idle"

\* the script about to run for any environment against any answers
InitTdAny ==
    /\ tdEnv \in TdEnvironments
    /\ tdSite \in [production : SiteAnswers, staging : SiteAnswers,
                   dns : {"v4v6", "v4", "none"}]
    /\ tdProgram = <<>>
    /\ tdCounts = NoCounts
    /\ tdReport = <<>>
    /\ tdExit = "idle"

(***************************************************************************)
(* The infrastructure setup script (CloudFormation), under set -euo        *)
(* pipefail.  A stack status is the sequence of the words of its name:     *)
(* UPDATE_ROLLBACK_FAILED is <<"UPDATE", "ROLLBACK", "FAILED">>.           *)
(***************************************************************************)
\* check_stack_exists, lines 120-127: the status, or NOT_EXISTS
NotExists == <<"NOT", "EXISTS">>

\* [[ "$status" == *"word"* ]]
HasWord(status, word) == \E k \in 1..Len(status) : status[k] = word

\* the test of cleanup_failed_stack, line 329
IsFailedStatus(status) ==
    HasWord(status, "FAILED") \/ status = <<"ROLLBACK", "COMPLETE">>

\* the statuses in which CloudFormation accepts update-stack
Updatable(status) ==
    status \in {<<"CREATE", "COMPLETE">>, <<"UPDATE", "COMPLETE">>,
                <<"UPDATE", "ROLLBACK", "COMPLETE">>}

CfAbort(st) == [st EXCEPT !.ok = FALSE]

\* cleanup_failed_stack, lines 325-354
cleanup_failed_stack(st) ==
    IF IsFailedStatus(st.status)
    THEN [st EXCEPT !.ops = Append(@, "delete-stack"), !.status = NotExists]
    ELSE st

\* create_stack, lines 129-157: create-stack fails on an existing stack
create_stack(st) ==
    IF st.status = NotExists
    THEN [st EXCEPT !.ops = Append(@, "create-stack"),
                    !.status = <<"CREATE", "COMPLETE">>]
    ELSE CfAbort(st)

\* update_stack, lines 159-188: a rejected update-stack only logs a warning
update_stack(given, st) ==
    IF Updatable(st.status) /\ given.changes
    THEN [st EXCEPT !.ops = Append(@, "update-stack"),
                    !.status = <<"UPDATE", "COMPLETE">>]
    ELSE [st EXCEPT !.ops = Append(@, "update-stack rejected")]

\* the if statement of the deploy action, lines 424-439
create_or_update(given, st) ==
    IF st.status = NotExists
    THEN create_stack(cleanup_failed_stack(st))
    ELSE IF HasWord(st.status, "COMPLETE")
    THEN update_stack(given, st)
    ELSE CfAbort(st)

\* get_stack_outputs, lines 190-207: describe-stacks fails without a stack
get_stack_outputs(st) == IF st.status = NotExists THEN CfAbort(st) ELSE st

\* the delete action, lines 457-479
delete_confirmed(given, st) ==
    IF given.confirm
    THEN IF st.status = NotExists THEN CfAbort(st)
         ELSE [st EXCEPT !.ops = Append(@, "delete-stack"),
                         !.status = <<"DELETE", "IN", "PROGRESS">>]
    ELSE st

\* one function of an action
CfRun(fn, given, st) ==
    CASE fn = "check_prerequisites" -> IF given.tools THEN st ELSE CfAbort(st)
      [] fn = "validate_template" -> IF given.template THEN st ELSE CfAbort(st)
      [] fn = "create_or_update" -> create_or_update(given, st)
      [] fn = "update_stack" -> update_stack(given, st)
      [] fn = "get_stack_outputs" -> get_stack_outputs(st)
      [] fn = "status_outputs" ->
           IF st.status # NotExists THEN get_stack_outputs(st) ELSE st
      [] fn = "delete" -> delete_confirmed(given, st)
      [] fn = "usage" -> CfAbort(st)
      [] OTHER -> st

\* the case statement of main, lines 418-513
CfProgramOf(action) ==
    CASE action \in {"deploy", "create"} ->
           <<"check_prerequisites", "generate_parameters", "validate_template",
             "create_or_update", "get_stack_outputs", "post_deployment">>
      [] action = "update" ->
           <<"check_prerequisites", "generate_parameters", "validate_template",
             "update_stack", "get_stack_outputs">>
      [] action = "delete" -> <<"delete">>
      [] action = "status" -> <<"status_outputs">>
      [] action = "validate" -> <<"check_prerequisites", "validate_template">>
      [] action = "costs" -> <<"estimate_costs">>
      [] OTHER -> <<"usage">>

\* the script is started
CfStart ==
    /\ cfExit = "idle"
    /\ cfProgram' = CfProgramOf(cfAction)
    /\ cfExit' = "running"
    /\ UNCHANGED <<cfAction, cfGiven, cfInitial, cfStatus, cfOps>>
    /\ UNCHANGED exceptCf

\* the next function of the action runs; a failure ends the script
CfStep ==
    /\ cfExit = "running"
    /\ cfProgram # <<>>
    /\ LET st == CfRun(Head(cfProgram), cfGiven,
                       [ok |-> TRUE, status |-> cfStatus, ops |-> cfOps])
       IN /\ cfStatus' = st.status
          /\ cfOps' = st.ops
          /\ cfProgram' = IF st.ok THEN Tail(cfProgram) ELSE <<>>
          /\ cfExit' = IF ~st.ok THEN "1"
                       ELSE IF Tail(cfProgram) = <<>> THEN "0"
                       ELSE "running"
    /\ UNCHANGED <<cfAction, cfGiven, cfInitial>>
    /\ UNCHANGED exceptCf

\* the statuses a stack can be found in
StackStatuses ==
    {NotExists,
     <<"CREATE", "COMPLETE">>, <<"UPDATE", "COMPLETE">>,
     <<"UPDATE", "ROLLBACK", "COMPLETE">>, <<"ROLLBACK", "COMPLETE">>,
     <<"CREATE", "FAILED">>, <<"ROLLBACK", "FAILED">>, <<"DELETE", "FAILED">>,
     <<"UPDATE", "ROLLBACK", "FAILED">>, <<"UPDATE", "IN", "PROGRESS">>}

CfActions ==
    {"deploy", "create", "update", "delete", "status", "validate", "costs",
     "help"}

\* the script is not being run
InitCfIdle ==
    /\ cfAction = "costs"
    /\ cfGiven = [tools |-> TRUE, template |-> TRUE, changes |-> TRUE,
                  confirm |-> FALSE]
    /\ cfInitial = NotExists
    /\ cfStatus = NotExists
    /\ cfOps = <<>>
    /\ cfProgram = <<>>
    /\ cfExit = "idle"

\* the script about to run any action on a stack in any status
InitCfAny ==
    /\ cfAction \in CfActions
    /\ cfGiven \in [tools : BOOLEAN, template : BOOLEAN, changes : BOOLEAN,
                    confirm : BOOLEAN]
    /\ cfInitial \in StackStatuses
    /\ cfStatus = cfInitial
    /\ cfOps = <<>>
    /\ cfProgram = <<>>
    /\ cfExit = "idle"

(***************************************************************************)
(* Initial states and specifications.                                      *)
(***************************************************************************)
\* AnimationManager constructor, lines 301-306
InitAnim ==
    /\ animatedElements = {}
    /\ countersAnimated = {}
    /\ animateCalls = [e \in Elems |-> 0]
    /\ revealTimers = [e \in Elems |-> 0]
    /\ aosAnimate = [e \in Elems |-> FALSE]
    /\ widthTimers = [e \in Elems |-> 0]
    /\ widthSet = [e \in Elems |-> FALSE]
    /\ counterRuns = [e \in Elems |-> 0]
    /\ scrollReports = [e \in Elems |-> 0]

\* ContactFormManager constructor, lines 662-676, on the freshly loaded page
InitFormState ==
    /\ fieldError = [f \in Fields |-> NoError]
    /\ isSubmitting = FALSE
    /\ sendPending = FALSE
    /\ inflight = NoPayload
    /\ orig = "original"
    /\ sendCalls = 0
    /\ btnDisabled = FALSE
    /\ btnContent = "original"
    /\ successDisplay = "none"
    /\ errorDisplay = "none"
    /\ feedbackDisplay = "none"
    /\ hideTimers = 0
    /\ events = <<>>
    /\ warnings = 0
    /\ lastOp = "init"
    /\ uncaught = 0

\* the form untouched, with the emailjs global defined
InitFormIdle ==
    /\ values = [f \in Fields |-> DefaultValue(f)]
    /\ sdk = "ready"
    /\ hasSubmitBtn = TRUE
    /\ InitFormState

\* the other controllers right after their construction
InitUi ==
    /\ InitCounterIdle
    /\ InitNavIdle
    /\ InitFilter
    /\ InitTip
    /\ InitRuleIdle
    /\ InitCfIdle
    /\ InitTdIdle
    /\ InitScroll
    /\ InitShIdle
    /\ InitPerf
    /\ InitAppIdle
    /\ InitOwn
    /\ InitPayIdle

\* the page's own form: it has its submit button; initEmailJS finds the
\* emailjs global already defined, or starts loading its script
Init ==
    /\ values = [f \in Fields |-> DefaultValue(f)]
    /\ sdk \in {"loading", "ready"}
    /\ hasSubmitBtn = TRUE
    /\ InitFormState
    /\ InitAnim
    /\ InitUi

Next ==
    \/ \E f \in Fields : \E v \in InputValues(f) : Input(f, v)
    \/ \E f \in Fields : Blur(f)
    \/ Submit
    \/ SendResolve
    \/ SendReject
    \/ BannerTimer
    \/ SdkLoaded
    \/ SdkFailed

Spec == Init /\ [][Next]_vars

\* a form the controller is given with or without a '.submit-btn' element,
\* the emailjs global defined
InitAnyMarkup ==
    /\ values = [f \in Fields |-> DefaultValue(f)]
    /\ sdk = "ready"
    /\ hasSubmitBtn \in BOOLEAN
    /\ InitFormState
    /\ InitAnim
    /\ InitUi

NextForm ==
    \/ \E f \in Fields : \E v \in InputValues(f) : Input(f, v)
    \/ \E f \in Fields : Blur(f)
    \/ Submit
    \/ SendResolve
    \/ SendReject
    \/ BannerTimer

SpecAnyMarkup == InitAnyMarkup /\ [][NextForm]_vars

\* every string of at most n characters over alphabet A
StringsUpTo(A, n) == UNION {[1..k -> A] : k \in 0..n}

\* the characters the e-mail pattern and trim() tell apart
EmailAlphabet == {"a", "@", ".", " "}

\* values an input of type email can hold: the browser strips leading and
\* trailing whitespace from them
EmailValues == {e \in StringsUpTo(EmailAlphabet, MaxEmailLen) : Trim(e) = e}

\* the form as filled in by the user, with any short e-mail value
InitValidate ==
    /\ \E n \in InputValues("name"), e \in EmailValues,
          m \in InputValues("message") :
         values = [f \in Fields |->
                     CASE f = "name" -> n
                       [] f = "email" -> e
                       [] f = "message" -> m
                       [] OTHER -> DefaultValue(f)]
    /\ sdk = "ready"
    /\ hasSubmitBtn = TRUE
    /\ InitFormState
    /\ InitAnim
    /\ InitUi

NextValidate ==
    \/ \E f \in Fields : Blur(f)
    \/ Submit
    \/ SendResolve
    \/ SendReject
    \/ BannerTimer

SpecValidate == InitValidate /\ [][NextValidate]_vars

NextAnim ==
    \/ \E b \in Batches({e \in Elems : HasAos(e)}) : ScrollCallback(b)
    \/ \E b \in Batches({e \in Elems : IsSkillBar(e)}) : BarCallback(b)
    \/ \E b \in Batches({e \in Elems : HasTarget(e)}) : CounterCallback(b)
    \/ \E e \in Elems : RevealTimer(e)
    \/ \E e \in Elems : WidthTimer(e)

SpecAnim == Init /\ [][NextAnim]_vars

\* one run of animateCounter on one element
InitCounter ==
    /\ InitFormIdle /\ InitAnim /\ InitCounterRun
    /\ InitNavIdle /\ InitFilter /\ InitTip /\ InitRuleIdle /\ InitPayIdle /\ InitOwn /\ InitAppIdle /\ InitPerf /\ InitShIdle /\ InitScroll /\ InitTdIdle /\ InitCfIdle

NextCounter ==
    \/ AnimateCounterCall
    \/ CounterTick

SpecCounter == InitCounter /\ [][NextCounter]_vars

\* the same with the browser's scheduling: a call that is due is made, and
\* an interval timer that has not been cleared keeps calling its callback
SpecCounterFair ==
    InitCounter /\ [][NextCounter]_vars
    /\ WF_vars(AnimateCounterCall) /\ WF_vars(CounterTick)

\* the navigation controller alone
InitNavigation ==
    /\ InitFormIdle /\ InitAnim /\ InitCounterIdle
    /\ InitNav /\ InitFilter /\ InitTip /\ InitRuleIdle /\ InitPayIdle /\ InitOwn /\ InitAppIdle /\ InitPerf /\ InitShIdle /\ InitScroll /\ InitTdIdle /\ InitCfIdle

NextNav ==
    \/ \E t \in ClickTargets : Click(t)
    \/ \E k \in Keys : Keydown(k)
    \/ \E b \in Batches(Sections) : SectionCallback(b)

SpecNav == InitNavigation /\ [][NextNav]_vars

\* the skills and projects controllers alone
InitFiltering ==
    /\ InitFormIdle /\ InitAnim /\ InitCounterIdle
    /\ InitNavIdle /\ InitFilter /\ InitTip /\ InitRuleIdle /\ InitPayIdle /\ InitOwn /\ InitAppIdle /\ InitPerf /\ InitShIdle /\ InitScroll /\ InitTdIdle /\ InitCfIdle

NextFilter ==
    \/ \E b \in SkillBtns : SkillClick(b)
    \/ \E b \in FilterBtns : FilterClick(b)
    \/ UiTimerFire
    \/ UiTick

SpecFilter == InitFiltering /\ [][NextFilter]_vars

\* the tooltips alone
InitTooltip == InitFormIdle /\ InitAnim /\ InitUi

NextTooltip ==
    \/ \E i \in TechItems : MouseEnter(i)
    \/ \E i \in TechItems : MouseLeave(i)
    \/ \E t \in 1..MaxTips : TipFrame(t)
    \/ TipTimerFire

SpecTooltip == InitTooltip /\ [][NextTooltip]_vars

\* validateField alone, on a control of any kind
InitRules ==
    /\ InitFormIdle /\ InitAnim /\ InitCounterIdle
    /\ InitNavIdle /\ InitFilter /\ InitTip /\ InitRuleAny /\ InitPayIdle /\ InitOwn /\ InitAppIdle /\ InitPerf /\ InitShIdle /\ InitScroll /\ InitTdIdle /\ InitCfIdle

NextRules ==
    \/ \E v \in UNION {RuleValues(fld) : fld \in RuleFields} : RuleInput(v)
    \/ RuleBlur

SpecRules == InitRules /\ [][NextRules]_vars

\* the payload value of one field alone
InitPayload ==
    /\ InitFormIdle /\ InitAnim /\ InitCounterIdle
    /\ InitNavIdle /\ InitFilter /\ InitTip /\ InitRuleIdle /\ InitPayAny /\ InitOwn /\ InitAppIdle /\ InitPerf /\ InitShIdle /\ InitScroll /\ InitTdIdle /\ InitCfIdle

NextPayload ==
    \/ BuildPayload
    \/ \E p \in PrimaryValues, d \in DirectValues : ReadForm(p, d)

SpecPayload == InitPayload /\ [][NextPayload]_vars

\* the writes of all controllers
InitOwnership ==
    /\ InitFormIdle /\ InitAnim /\ InitCounterIdle
    /\ InitNavIdle /\ InitFilter /\ InitTip /\ InitRuleIdle /\ InitPayIdle /\ InitAppIdle /\ InitPerf /\ InitShIdle /\ InitScroll /\ InitTdIdle /\ InitCfIdle
    /\ InitOwn

NextOwnership ==
    \/ \E b \in AllBars : OwnBarObserved(b)
    \/ \E b \in SkillBtns : OwnSwitchCategory(b)
    \/ \E t \in [by : {"animations", "skills"}, el : AllBars] : OwnBarTimer(t)
    \/ \E h \in HandlerWrites : OwnHandler(h)

SpecOwnership == InitOwnership /\ [][NextOwnership]_vars

\* the application bootstrap alone
InitBootstrap ==
    /\ InitFormIdle /\ InitAnim /\ InitCounterIdle
    /\ InitNavIdle /\ InitFilter /\ InitTip /\ InitRuleIdle /\ InitPayIdle /\ InitPerf /\ InitShIdle /\ InitScroll /\ InitTdIdle /\ InitCfIdle
    /\ InitOwn /\ InitAppAny

NextBootstrap ==
    \/ AppInit
    \/ AppResume
    \/ OverlayTimer

SpecBootstrap == InitBootstrap /\ [][NextBootstrap]_vars

\* the same with the browser's scheduling: a suspended init is resumed once
\* the promise it awaits has settled, and a timer that was set fires
SpecBootstrapFair ==
    InitBootstrap /\ [][NextBootstrap]_vars
    /\ WF_vars(AppResume) /\ WF_vars(OverlayTimer)

\* the performance monitor alone
InitMonitor ==
    /\ InitFormIdle /\ InitAnim /\ InitCounterIdle
    /\ InitNavIdle /\ InitFilter /\ InitTip /\ InitRuleIdle /\ InitPayIdle /\ InitShIdle /\ InitScroll /\ InitTdIdle /\ InitCfIdle
    /\ InitOwn /\ InitAppIdle /\ InitPerf

NextMonitor ==
    \/ \E m \in MetricNames, v \in MetricValues : MetricUpdate(m, v)
    \/ \E t \in ErrorTypes : ErrorEvent(t)
    \/ GetReport

SpecMonitor == InitMonitor /\ [][NextMonitor]_vars

\* deploy.sh alone
InitDeploy ==
    /\ InitFormIdle /\ InitAnim /\ InitCounterIdle
    /\ InitNavIdle /\ InitFilter /\ InitTip /\ InitRuleIdle /\ InitPayIdle /\ InitScroll /\ InitTdIdle /\ InitCfIdle
    /\ InitOwn /\ InitAppIdle /\ InitPerf /\ InitShAny

NextDeploy ==
    \/ ShStart
    \/ ShStep

SpecDeploy == InitDeploy /\ [][NextDeploy]_vars

\* the scroll listeners alone
InitScrolling ==
    /\ InitFormIdle /\ InitAnim /\ InitCounterIdle
    /\ InitNavIdle /\ InitFilter /\ InitTip /\ InitRuleIdle /\ InitPayIdle /\ InitTdIdle /\ InitCfIdle
    /\ InitOwn /\ InitAppIdle /\ InitPerf /\ InitShIdle /\ InitScroll

NextScroll ==
    \/ \E y \in ScrollPositions : ScrollEvent(y)
    \/ NavThrottleTimer
    \/ TopThrottleTimer
    \/ ScrollTick

SpecScroll == InitScrolling /\ [][NextScroll]_vars

\* test-deployment.sh alone
InitTesting ==
    /\ InitFormIdle /\ InitAnim /\ InitCounterIdle
    /\ InitNavIdle /\ InitFilter /\ InitTip /\ InitRuleIdle /\ InitPayIdle /\ InitCfIdle
    /\ InitOwn /\ InitAppIdle /\ InitPerf /\ InitShIdle /\ InitScroll
    /\ InitTdAny

NextTesting ==
    \/ TdStart
    \/ TdStep

SpecTesting == InitTesting /\ [][NextTesting]_vars

\* the infrastructure setup script alone
InitStack ==
    /\ InitFormIdle /\ InitAnim /\ InitCounterIdle
    /\ InitNavIdle /\ InitFilter /\ InitTip /\ InitRuleIdle /\ InitPayIdle
    /\ InitOwn /\ InitAppIdle /\ InitPerf /\ InitShIdle /\ InitScroll
    /\ InitTdIdle /\ InitCfAny

NextStack ==
    \/ CfStart
    \/ CfStep

SpecStack == InitStack /\ [][NextStack]_vars

TypeOK ==
    /\ isSubmitting \in BOOLEAN
    /\ sendCalls \in 0..MaxSends
    /\ hideTimers \in 0..MaxTimers

(***************************************************************************)
(* Properties of the contact-form controller.                              *)
(***************************************************************************)
\* the values of lastOp that a 'submit' event leaves
SubmitOps == {"submit", "submit_inflight"}

\* the string is empty or consists of whitespace only
IsBlank(s) == \A k \in 1..Len(s) : IsSpace(s[k])

\* the string reads local@domain.tld: no whitespace, a single '@' that is not
\* the first character, and after it a '.' with a character on both sides
MatchesLocalAtDomainTld(s) ==
    /\ \A k \in 1..Len(s) : ~IsSpace(s[k])
    /\ Cardinality({k \in 1..Len(s) : s[k] = "@"}) = 1
    /\ \E i \in 2..Len(s) :
          /\ s[i] = "@"
          /\ \E j \in (i + 2)..(Len(s) - 1) : s[j] = "."

EmailMessage == <<"Please enter a valid email address.">>

ErrorBannerShown(succ, err, feed) ==
    succ = "none" /\ err = "block" /\ feed = "block"

\* every required field passes validateField
FormValid == \A f \in RequiredFields : ValidationMessage(f, values[f]) = NoError

\* C1: a submit event delivered while isSubmitting is true issues no send
\* call and changes nothing of the controller, the form or the banner.
C1_SubmitInFlightIsNoOp ==
    [][(isSubmitting /\ lastOp' \in SubmitOps) =>
          UNCHANGED <<values, fieldError, isSubmitting, sendPending,
                      inflight, orig, sendCalls, sdk, btnDisabled,
                      btnContent, successDisplay, errorDisplay,
                      feedbackDisplay, hideTimers, events, warnings,
                      uncaught>>]_vars

C1_Witness ==
    /\ lastOp = "submit_inflight"
    /\ isSubmitting
    /\ sendPending
    /\ sendCalls = 1

\* C2: a submit with a required field that is empty after trimming issues no
\* send call, leaves isSubmitting false and shows the general error banner.
C2_EmptyRequiredAborts ==
    [][(/\ ~isSubmitting
        /\ lastOp' \in SubmitOps
        /\ \E f \in RequiredFields : IsBlank(values[f])) =>
          /\ sendCalls' = sendCalls
          /\ ~sendPending'
          /\ ~isSubmitting'
          /\ ErrorBannerShown(successDisplay', errorDisplay', feedbackDisplay')]_vars

C2_Witness ==
    /\ lastOp = "submit"
    /\ values["name"] = <<" ">>
    /\ values["email"] = <<"a", "@", "a", ".", "a">>
    /\ values["message"] = <<"H", "i">>
    /\ fieldError["name"] = <<"Name", " is required.">>
    /\ ErrorBannerShown(successDisplay, errorDisplay, feedbackDisplay)
    /\ ~isSubmitting
    /\ sendCalls = 0

\* C3: a submit while the email field holds a non-empty value that does not
\* read local@domain.tld puts "Please enter a valid email address." on the
\* email field and issues no send call.
C3_InvalidEmailBlocks ==
    [][(/\ ~isSubmitting
        /\ lastOp' \in SubmitOps
        /\ values["email"] # <<>>
        /\ ~MatchesLocalAtDomainTld(values["email"])) =>
          /\ fieldError'["email"] = EmailMessage
          /\ sendCalls' = sendCalls
          /\ ~sendPending']_vars

C3_Witness ==
    /\ lastOp = "submit"
    /\ values["name"] = <<"J">>
    /\ values["message"] = <<"H", "i">>
    /\ values["email"] = <<"a", "@", "a", "a", ".">>
    /\ fieldError["email"] = EmailMessage
    /\ sendCalls = 0
    /\ ~sendPending

\* C4: when the send call rejects, the error banner is shown, isSubmitting is
\* false again and the submit button is enabled with its original content.
C4_RejectEndsInError ==
    [][(sendPending /\ lastOp' = "reject") =>
          /\ ErrorBannerShown(successDisplay', errorDisplay', feedbackDisplay')
          /\ ~isSubmitting'
          /\ ~btnDisabled'
          /\ btnContent' = "original"]_vars

C4_Witness ==
    /\ lastOp = "reject"
    /\ ErrorBannerShown(successDisplay, errorDisplay, feedbackDisplay)
    /\ ~isSubmitting
    /\ ~btnDisabled
    /\ sendCalls = 1

\* C5: when the send call resolves, the success banner is shown, the form is
\* reset and exactly one 'contact_form_submit' event is tracked whose service
\* and budget are those selected at submission ("Not specified" when unset).
C5_ResolveTracksSelections ==
    [][(sendPending /\ lastOp' = "resolve") =>
          /\ successDisplay' = "block" /\ feedbackDisplay' = "block"
          /\ values' = [f \in Fields |-> DefaultValue(f)]
          /\ Len(events') = Len(events) + 1
          /\ events'[Len(events')].name = "contact_form_submit"
          /\ events'[Len(events')].service =
                 Or(inflight.user_service, <<"Not specified">>)
          /\ events'[Len(events')].budget =
                 Or(inflight.user_budget, <<"Not specified">>)]_vars

\* C6: the number of send calls grows only in a step of an accepted submit
\* event, and then by exactly one; settling a call never issues another.
C6_NoAutomaticRetry ==
    [][sendCalls' # sendCalls =>
          /\ lastOp' \in SubmitOps
          /\ ~isSubmitting
          /\ sendCalls' = sendCalls + 1]_vars

C6_Witness ==
    /\ lastOp = "reject"
    /\ sendCalls = 1
    /\ ~sendPending
    /\ ~isSubmitting

\* C7: as long as the pending send call has not settled, isSubmitting stays
\* true, the button stays disabled with the loading indicator, and no
\* further send call is issued, whatever events arrive.
C7_HungCallStaysSubmitting ==
    [][(sendPending /\ sendPending') =>
          /\ isSubmitting'
          /\ btnDisabled'
          /\ btnContent' = "loading"
          /\ sendCalls' = sendCalls]_vars

C7_Witness ==
    /\ sendPending
    /\ lastOp = "timer"
    /\ isSubmitting
    /\ btnDisabled
    /\ btnContent = "loading"

\* C8: a failed SDK load only logs a warning (banner untouched, no exception
\* escapes), the SDK stays unavailable, and every later valid submission
\* issues no call and ends with the error banner, isSubmitting false and the
\* button enabled.
C8_SdkLoadFailure ==
    [][/\ lastOp' = "sdk_error" =>
            /\ warnings' = warnings + 1
            /\ UNCHANGED <<successDisplay, errorDisplay, feedbackDisplay,
                           hideTimers, isSubmitting, btnDisabled, uncaught>>
       /\ sdk = "failed" => sdk' = "failed"
       /\ (sdk = "failed" /\ ~isSubmitting /\ lastOp' \in SubmitOps /\ FormValid) =>
            /\ ErrorBannerShown(successDisplay', errorDisplay', feedbackDisplay')
            /\ ~isSubmitting'
            /\ ~btnDisabled'
            /\ btnContent' = "original"
            /\ sendCalls' = sendCalls
            /\ ~sendPending'
            /\ uncaught' = uncaught]_vars

C8_Witness ==
    /\ sdk = "failed"
    /\ warnings = 1
    /\ lastOp = "submit"
    /\ FormValid
    /\ ErrorBannerShown(successDisplay, errorDisplay, feedbackDisplay)
    /\ ~isSubmitting
    /\ ~btnDisabled
    /\ sendCalls = 0

(***************************************************************************)
(* Properties of the animation controller.                                 *)
(***************************************************************************)
\* C9: animateElement is invoked at most once for every data-aos element,
\* however often the entrance observer reports it.
C9_AnimateAtMostOnce ==
    \A e \in Elems : HasAos(e) => animateCalls[e] <= 1

C9_Witness ==
    /\ scrollReports["card"] = 2
    /\ animateCalls["card"] = 1
    /\ aosAnimate["card"]

\* C10: every data-aos element the entrance observer has reported as
\* intersecting has had animateElement invoked for it, whatever the other
\* observers did with that element before.
C10_RevealedOnFirstIntersection ==
    \A e \in Elems :
        (HasAos(e) /\ scrollReports[e] >= 1) =>
            (animateCalls[e] >= 1 /\ (aosAnimate[e] \/ revealTimers[e] > 0))

(***************************************************************************)
(* Properties of Utils.animateCounter.                                     *)
(***************************************************************************)
\* C11: in a run of animateCounter no displayed value passes the target (none
\* above it in an increasing run, none below it in a decreasing run), and
\* once the interval is cleared the displayed value is the target.
C11_CounterClampsToTarget ==
    ctrPhase # "idle" =>
        /\ ctrStart < ctrTarget => ctrText <= ctrTarget
        /\ ctrStart > ctrTarget => ctrText >= ctrTarget
        /\ ctrStart = ctrTarget => ctrText = ctrTarget
        /\ ctrPhase = "cleared" => ctrText = ctrTarget

C11_Witness ==
    /\ ctrPhase = "cleared"
    /\ ctrDuration = 40
    /\ ctrStart = 2
    /\ ctrTarget = -1
    /\ ctrText = -1

(***************************************************************************)
(* Properties of the navigation controller.                                *)
(***************************************************************************)
\* the events that are to close an open menu: a click outside the menu and
\* the toggle, an Escape keydown, a click on an in-page nav link
ClosingEvent(e) ==
    \/ e.type = "click" /\ ~InMenu(e.on) /\ ~InToggle(e.on)
    \/ e.type = "keydown" /\ e.on = "Escape"
    \/ e.type = "click" /\ e.on \in NavLinkSet /\ InPage(e.on)

\* C12: whenever the menu is open, a click outside the menu and the toggle,
\* an Escape keydown, and a click on any in-page nav link each close it.
C12_ClosingEventsClose ==
    [][(isMenuOpen /\ lastNav' # lastNav /\ ClosingEvent(lastNav')) =>
          ~isMenuOpen']_vars

\* C13: a click on the toggle button (or inside it) flips the menu-open state
\* exactly once; the document-level handler does not undo or repeat it.
C13_ToggleFlipsOnce ==
    [][(lastNav'.type = "click" /\ InToggle(lastNav'.on)) =>
          /\ isMenuOpen' = ~isMenuOpen
          /\ menuActive' = ~menuActive]_vars

C13_Witness ==
    /\ lastNav = [type |-> "click", on |-> "bar"]
    /\ ~isMenuOpen
    /\ ~menuActive
    /\ bodyOverflow = ""

\* C14: at most one nav link is active; once a section has been reported as
\* intersecting, the active link is a link to the most recently reported
\* one, and there is one if that section has a link.
C14_LastSectionWins ==
    /\ Cardinality(activeLinks) <= 1
    /\ lastSection # "none" =>
         /\ \A l \in activeLinks : InPage(l) /\ TargetId(l) = lastSection
         /\ (\E l \in NavLinkSet : InPage(l) /\ TargetId(l) = lastSection)
               => activeLinks # {}

C14_Witness ==
    /\ sectionsSeen = {"home", "about"}
    /\ lastSection = "about"
    /\ activeLinks = {"lAbout"}

(***************************************************************************)
(* Properties of the skills and projects controllers.                      *)
(***************************************************************************)
\* C15: exactly one category button is active and its data-category is the
\* current category; exactly one filter button is active and its data-filter
\* is the current filter.
C15_OneActiveButton ==
    /\ Cardinality(skillBtnActive) = 1
    /\ \A b \in skillBtnActive : SkillCategoryOf(b) = currentCategory
    /\ Cardinality(filterBtnActive) = 1
    /\ \A b \in filterBtnActive : FilterOf(b) = currentFilter

C15_Witness ==
    /\ currentCategory = "devops"
    /\ skillBtnActive = {"sbDevops"}
    /\ currentFilter = <<"o", "p", "s">>
    /\ filterBtnActive = {"fbOps"}

\* a call of switchCategory or filterProjects with the current value
SameValueCall ==
    \/ lastUi'.op = "switchCategory" /\ lastUi'.arg = currentCategory
    \/ lastUi'.op = "filterProjects" /\ lastUi'.arg = currentFilter

\* C16: switchCategory with the current category and filterProjects with the
\* current filter change no class, write no style and schedule no timer.
C16_SameValueNoOp ==
    [][SameValueCall =>
          /\ lastUi'.writes = 0
          /\ UNCHANGED <<currentCategory, skillBtnActive, skillCatActive,
                         barWidth, currentFilter, filterBtnActive, cardStyle,
                         uiTimers>>]_vars

C16_Witness ==
    /\ lastUi.op = "switchCategory"
    /\ lastUi.arg = "frontend"
    /\ lastUi.writes = 0
    /\ currentCategory = "frontend"
    /\ skillBtnActive = {"sbFrontend"}
    /\ Len(uiTimers) = 2
    /\ \A k \in 1..2 : uiTimers[k].kind = "bar" /\ uiTimers[k].left = BarDelay(k - 1)

\* the filter value that no card's data-category contains
NoMatchFilter == <<"i", "o", "s">>

HideTimerPending == \E k \in 1..Len(uiTimers) : uiTimers[k].kind = "hide"

\* C17: switching to a filter no card matches throws nothing and sets every
\* card's opacity to 0 at once, the card without data-category included; and
\* while that filter is current, every card has display 'none' once no
\* 300 ms timer is pending.
C17_NoMatchHidesAll ==
    /\ [][(lastUi'.op = "filterProjects" /\ lastUi'.arg = NoMatchFilter
             /\ currentFilter # NoMatchFilter) =>
            /\ ~lastUi'.threw
            /\ currentFilter' = NoMatchFilter
            /\ \A c \in CardSet : cardStyle'[c].opacity = "0"]_vars
    /\ []((currentFilter = NoMatchFilter /\ ~HideTimerPending) =>
            \A c \in CardSet : cardStyle[c].display = "none")

C17_Witness ==
    /\ currentFilter = NoMatchFilter
    /\ uiTimers = <<>>
    /\ \A c \in CardSet : cardStyle[c].display = "none"

(***************************************************************************)
(* Properties of the tooltips.                                             *)
(***************************************************************************)
\* C18: at most one tooltip element is in the document at any moment; and
\* when the last mouse event was a mouseleave and its removal timer has
\* fired (no removal timer is pending), no tooltip is left.
C18_AtMostOneTooltip ==
    /\ Cardinality(tooltips) <= 1
    /\ (lastMouse.type = "mouseleave" /\ tipTimers = <<>>) => tooltips = {}

C18_Witness ==
    /\ lastMouse.type = "mouseleave"
    /\ nextTip = 3
    /\ tipTimers = <<>>
    /\ tooltips = {}

(***************************************************************************)
(* Properties of the feedback banner and of validateField.                 *)
(***************************************************************************)
\* C19: a displayed banner is hidden only by the timer of the call that
\* showed it, i.e. by the newest timer: when a timer hides the banner, no
\* other banner timer is pending.
C19_BannerHiddenByOwnTimer ==
    [][(lastOp' = "timer" /\ feedbackDisplay = "block"
          /\ feedbackDisplay' = "none") => hideTimers = 1]_vars

\* which of the three rules the control's value breaks
FailsRequired == ruleField.required /\ IsBlank(ruleValue)

FailsEmail ==
    /\ ruleField.type = "email"
    /\ ~IsBlank(ruleValue)
    /\ ~MatchesLocalAtDomainTld(Trim(ruleValue))

FailsMinLength == ruleField.hasMin /\ Len(Trim(ruleValue)) < ruleField.min

FirstFailingMessage ==
    IF FailsRequired THEN <<ruleField.label, " is required.">>
    ELSE IF FailsEmail THEN EmailMessage
    ELSE <<ruleField.label, " must be at least ", ToString(ruleField.min),
           " characters.">>

\* C20: right after validateField the error slot holds exactly the message
\* of the first rule the value breaks, in the order required, e-mail format,
\* minlength, whatever it held before; it is empty if no rule is broken.
C20_OneMessageFirstRule ==
    lastRule.op = "validate" =>
       ruleSlot = IF FailsRequired \/ FailsEmail \/ FailsMinLength
                  THEN <<FirstFailingMessage>>
                  ELSE <<>>

C20_Witness ==
    /\ lastRule = [op |-> "validate", before |-> <<EmailMessage>>]
    /\ ruleField.required
    /\ FailsEmail
    /\ FailsMinLength
    /\ ruleSlot = <<EmailMessage>>

(***************************************************************************)
(* Properties of the payload.                                              *)
(***************************************************************************)
\* C21: the value placed in the payload is the FormData value whenever that
\* is non-empty, the directly looked-up value only when the FormData value
\* is empty, and the empty string when both are empty.
C21_PrimaryValueWins ==
    payOut # NotBuilt =>
       payOut.value = IF Truthy(payPrimary) THEN payPrimary
                      ELSE IF Truthy(payDirect) THEN payDirect
                      ELSE <<>>

(***************************************************************************)
(* Properties of DOM ownership.                                            *)
(***************************************************************************)
\* C22: no element is written by two different controllers.
C22_OneWriterPerElement ==
    \A e \in OwnedElements : Cardinality(elWriters[e]) <= 1

(***************************************************************************)
(* Properties of the application bootstrap.                                *)
(***************************************************************************)
\* C23: once init has been called, every controller other than the one
\* whose constructor throws has been constructed, and the global listeners
\* are registered.
C23_OtherControllersBuilt ==
    initCalls > 0 =>
       /\ \A c \in Components \ {appFaulty} : appBuilt[c] > 0
       /\ appListeners > 0

(***************************************************************************)
(* Properties of the performance monitor.                                  *)
(***************************************************************************)
\* C24: the metrics and errors read through a report are those it had when
\* getReport returned it, whatever has been recorded since.
C24_ReportIsSnapshot ==
    \A k \in 1..Len(perfReports) :
       /\ Deref(perfHeap, perfReports[k].report.metrics) = perfReports[k].sawMetrics
       /\ Deref(perfHeap, perfReports[k].report.errors) = perfReports[k].sawErrors

(***************************************************************************)
(* Properties of deploy.sh.                                                *)
(***************************************************************************)
\* C25: the build command, run from a clean tree with every tool succeeding,
\* ends with status 0 after printing 'Build completed successfully!', with
\* robots.txt, sitemap.xml and .well-known/security.txt generated.
C25_BuildCompletes ==
    (/\ shCmd = "build"
     /\ shSrc.toolsOk /\ shSrc.packageJson
     /\ shExit \in {"0", "1"}) =>
       /\ shExit = "0"
       /\ \E k \in 1..Len(shLog) : shLog[k] = "Build completed successfully!"
       /\ {"dist/robots.txt", "dist/sitemap.xml",
           "dist/.well-known/security.txt"} \subseteq shFiles

\* C26: 'deploy staging' and 'deploy prod' both end with status 0, having
\* synced the build to the staging and to the production bucket.
C26_HelpNamesAccepted ==
    (/\ shCmd = "deploy"
     /\ shEnv \in {"staging", "prod"}
     /\ shSrc.toolsOk /\ shSrc.packageJson
     /\ shExit \in {"0", "1"}
     /\ \E k \in 1..Len(shAws) : shAws[k][1] = "website") =>
       /\ shExit = "0"
       /\ \E k \in 1..Len(shAws) :
             shAws[k] = <<"sync", IF shEnv = "prod" THEN ProdBucket
                                  ELSE StagingBucket>>

(***************************************************************************)
(* Properties of the project filter under quick clicks.                    *)
(***************************************************************************)
CardVisible(c) ==
    /\ cardStyle[c].display # "none"
    /\ cardStyle[c].opacity \in {"1", ""}

\* C27: once no timer is pending, a project card is visible (display not
\* 'none', opacity 1) exactly when the current filter is 'all' or the card's
\* data-category contains the current filter, however quickly the filter
\* buttons were clicked.
C27_SettledCardsMatchFilter ==
    uiTimers = <<>> =>
        \A c \in CardSet : CardVisible(c) <=> ShouldShow(currentFilter, c)

(***************************************************************************)
(* Termination of Utils.animateCounter.                                    *)
(***************************************************************************)
\* C28: the interval timer started by animateCounter is eventually cleared,
\* whether the start value is below, above or equal to the target.
C28_IntervalEventuallyCleared == <>(ctrPhase = "cleared")

(***************************************************************************)
(* The submitting flag of the contact form.                                *)
(***************************************************************************)
\* C29: while no send call is pending, isSubmitting is false and the submit
\* button is enabled; while one is pending, isSubmitting is true and the
\* button shows the loading indicator; for a form with a '.submit-btn'
\* element and for one without.
C29_SubmittingOnlyWhilePending ==
    /\ ~sendPending => (~isSubmitting /\ ~btnDisabled)
    /\ sendPending => (isSubmitting /\ btnContent = "loading")

(***************************************************************************)
(* Properties of the scroll listeners.                                     *)
(***************************************************************************)
\* C30: once a scroll event has happened and both 100 ms throttle windows
\* have elapsed, the navbar has the class 'scrolled' exactly when the scroll
\* position is above 100 px, and the back-to-top button is displayed exactly
\* when it is above 300 px.
C30_SettledScrollState ==
    (scrollSeen /\ ~navInThrottle /\ ~topInThrottle) =>
        /\ navScrolled <=> scrollY > 100
        /\ backToTopDisplay = "flex" <=> scrollY > 300

(***************************************************************************)
(* Submissions while the SDK script is loading.                            *)
(***************************************************************************)
\* C31: a valid submission made while the SDK is still loading issues no
\* send call and ends in the error path (error banner, isSubmitting false,
\* button enabled); the load completing later issues no call for it; and a
\* valid submission made once the SDK is ready issues exactly one send call.
C31_SubmitDuringSdkLoad ==
    [][/\ (sdk = "loading" /\ ~isSubmitting /\ lastOp' \in SubmitOps /\ FormValid) =>
            /\ ErrorBannerShown(successDisplay', errorDisplay', feedbackDisplay')
            /\ ~isSubmitting'
            /\ ~btnDisabled'
            /\ sendCalls' = sendCalls
            /\ ~sendPending'
            /\ sdk' = "loading"
            /\ uncaught' = uncaught
       /\ lastOp' = "sdk_load" =>
            /\ sendCalls' = sendCalls
            /\ sendPending' = sendPending
       /\ (sdk = "ready" /\ ~isSubmitting /\ lastOp' \in SubmitOps /\ FormValid) =>
            /\ sendCalls' = sendCalls + 1
            /\ sendPending'
            /\ isSubmitting']_vars

C31_Witness ==
    /\ sdk = "ready"
    /\ lastOp = "submit"
    /\ FormValid
    /\ ErrorBannerShown(successDisplay, errorDisplay, feedbackDisplay)
    /\ hideTimers = 1
    /\ fieldError = [f \in Fields |-> NoError]
    /\ sendCalls = 1
    /\ sendPending

(***************************************************************************)
(* The four representations of the menu state.                             *)
(***************************************************************************)
\* C32: in every state of the navigation controller, isMenuOpen is true
\* exactly when the nav menu has the class 'active', exactly when
\* aria-expanded of the toggle is 'true', and exactly when the overflow of
\* the body is 'hidden'.
C32_MenuStateAgrees ==
    /\ isMenuOpen <=> menuActive
    /\ isMenuOpen <=> ariaExpanded
    /\ isMenuOpen <=> bodyOverflow = "hidden"

C32_Witness ==
    /\ isMenuOpen
    /\ menuActive
    /\ ariaExpanded
    /\ bodyOverflow = "hidden"
    /\ lastNav.type = "click"
    /\ sectionsSeen # {}

(***************************************************************************)
(* Repeated calls of init and the loading overlay.                         *)
(***************************************************************************)
\* C33: whatever init calls are made on the application object, also while
\* an earlier call is suspended at its await, every controller has been
\* constructed at most once and the global listeners registered at most
\* once.
C33_ConstructedAtMostOnce ==
    /\ \A c \in Components : appBuilt[c] <= 1
    /\ appListeners <= 1


\* C34: once init has been called, the loading overlay ends up hidden, with
\* opacity 0 and display 'none', whether the initialisation completes or a
\* controller constructor throws; and display becomes 'none' only after the
\* opacity was set to 0.
C34_OverlayEventuallyHidden ==
    /\ (initCalls > 0) ~> (overlayOpacity = "0" /\ overlayDisplay = "none")
    /\ [][(overlayDisplay' = "none" /\ overlayDisplay # "none") =>
             overlayOpacity = "0"]_vars

C34_Witness ==
    /\ appFaulty = "skills"
    /\ initCalls = 1
    /\ appBuilt["animations"] = 1
    /\ appBuilt["skills"] = 0
    /\ overlayOpacity = "0"
    /\ overlayDisplay = "none"
    /\ overlayTimers = 0

(***************************************************************************)
(* Rejection of an unknown environment by deploy.sh.                       *)
(***************************************************************************)
\* C35: 'deploy <env>' with a name other than 'staging' and 'production'
\* ends with status 1 and 'Invalid environment', and at no moment of the run
\* has a bucket been created, a website configuration or a bucket policy
\* been put.
C35_RejectedBeforeAwsChanges ==
    (shCmd = "deploy" /\ BucketOf(EnvOrDefault(shEnv)) = "none") =>
        /\ shAws = <<>>
        /\ shExit # "0"
        /\ (shExit = "1" /\ shSrc.toolsOk /\ shSrc.packageJson /\ BuildDir \in shDirs
              /\ "dist/index.html" \in shFiles) =>
               \E k \in 1..Len(shLog) : shLog[k] = "Invalid environment"

(***************************************************************************)
(* Properties of test-deployment.sh.                                       *)
(***************************************************************************)
\* C36: a run that has ended has called every check of its environment and
\* printed the report; its exit status is 0 exactly when no check was
\* recorded as failed; and the total of the report is the sum of the passed,
\* failed and warning counts.
C36_AlwaysReports ==
    tdExit \in {"0", "1"} =>
        /\ Len(tdReport) = 1
        /\ tdExit = "0" <=> tdCounts.failed = 0
        /\ \A k \in 1..Len(tdReport) :
              tdReport[k].total =
                 tdCounts.passed + tdCounts.failed + tdCounts.warned

(***************************************************************************)
(* Properties of the infrastructure setup script.                          *)
(***************************************************************************)
HasOp(op) == \E k \in 1..Len(cfOps) : cfOps[k] = op

\* a deploy run that has ended, its prerequisites met and its template valid
DeployEnded ==
    /\ cfAction = "deploy"
    /\ cfGiven.tools /\ cfGiven.template
    /\ cfExit \in {"0", "1"}

\* C37: a deploy run on a stack in a failed status (one containing FAILED,
\* or ROLLBACK_COMPLETE) deletes the stack and then creates a fresh one; on
\* a stack in a healthy _COMPLETE status it calls update-stack and creates
\* nothing; on a missing stack it creates the stack.
C37_DeployByStackStatus ==
    DeployEnded =>
       /\ IsFailedStatus(cfInitial) =>
             /\ HasOp("delete-stack") /\ HasOp("create-stack")
             /\ cfExit = "0"
       /\ (HasWord(cfInitial, "COMPLETE") /\ ~IsFailedStatus(cfInitial)) =>
             /\ HasOp("update-stack") \/ HasOp("update-stack rejected")
             /\ ~HasOp("create-stack") /\ ~HasOp("delete-stack")
       /\ cfInitial = NotExists =>
             /\ cfOps = <<"create-stack">>
             /\ cfExit = "0"

====
